---- MODULE Spec2Model ----
(***************************************************************************)
(* The attachment pipeline of atlas (src/app/api/routes/attachments.py):   *)
(* create_attachment, get_attachment and delete_attachment as concurrent   *)
(* request handlers over a relational database (Item and Attachment rows)  *)
(* and an object store (blobs by key).  Every await of a handler that      *)
(* reads or writes the database or the object store is one step of the     *)
(* request; requests interleave between their steps.  Further down: the    *)
(* bearer token and the user lookup in front of the handlers, the item     *)
(* routes, the login flow of the frontend with its Session rows, and the   *)
(* tag links of an item, each with a specification of its own over the     *)
(* same variables.                                                         *)
(***************************************************************************)
EXTENDS Integers, Sequences, FiniteSets, TLC

VARIABLES
    items,          \* ids of the committed Item rows
    nextItemId,     \* the identity sequence of the item table
    attachments,    \* committed Attachment rows: id -> row
    nextAttId,      \* the identity sequence of the attachment table
    store,          \* the object store: key -> bytes
    reqs,           \* the requests started so far, in order of arrival
    itemRows,       \* the columns of the Item rows: id -> row
    tags,           \* ids of the committed Tag rows
    links,          \* committed ItemTagLink rows, in order: <<item_id, tag_id>>
    users,          \* committed User rows, in order of their ids
    sessions,       \* committed Session rows: token -> row
    now,            \* the clock
    calls           \* the requests to the other handlers, in order of arrival

vars == <<items, nextItemId, attachments, nextAttId, store, reqs,
          itemRows, tags, links, users, sessions, now, calls>>

\* what the attachment handlers leave alone
restVars == <<itemRows, tags, links, users, sessions, now, calls>>

\* no item columns, tags, users, sessions or other requests yet
InitRest ==
    /\ itemRows = [x \in {} |-> {}]
    /\ tags = {}
    /\ links = <<>>
    /\ users = <<>>
    /\ sessions = [x \in {} |-> {}]
    /\ now = 0
    /\ calls = <<>>

(***************************************************************************)
(* Bounds of the model.                                                    *)
(***************************************************************************)
MaxItems == 1
MaxAttachments == 1
MaxRequests == 3
MaxLen == 3
\* hash_chunk_size (1 MiB in the source), scaled to the lengths of the model
HashChunkSize == 2

\* the ids a request may name: the last of them is never the id of a row
ItemIds == 1..(MaxItems + 1)
AttIds == 1..MaxAttachments

\* The uploads: the empty file, and one of more than a chunk.
Contents == {[i \in 1..n |-> i] : n \in {0, MaxLen}}
Filenames == {<<"a", ".", "t", "x", "t">>}
ContentTypes == {"text/plain"}

(***************************************************************************)
(* hashlib.sha256: a running state that absorbs the bytes in order.        *)
(***************************************************************************)
NULL == -1
Sha256Init == 7

RECURSIVE Sha256Update(_, _)
Sha256Update(h, chunk) ==
    IF chunk = <<>> THEN h
    ELSE Sha256Update((h * 31 + Head(chunk) + 1) % 65521, Tail(chunk))

\* hexdigest(): the padding block is absorbed and the state is given out
HexDigest(h) == (h * 31 + 129) % 65521

\* the digest of a whole byte sequence, computed in one piece
Sha256(bytes) == HexDigest(Sha256Update(Sha256Init, bytes))

(***************************************************************************)
(* UploadFile: read(n) returns at most n bytes from the position on.       *)
(***************************************************************************)
Min(a, b) == IF a < b THEN a ELSE b

FileRead(file, pos, n) == SubSeq(file, pos + 1, Min(pos + n, Len(file)))

\* HashLoop that stops at the first chunk shorter than hash_chunk_size and
\* leaves it out of the hash
RECURSIVE HashLoop_DropShort(_, _, _)
HashLoop_DropShort(file, pos, h) ==
    LET content == FileRead(file, pos, HashChunkSize)
    IN  IF Len(content) < HashChunkSize THEN [pos |-> pos + Len(content), h |-> h]
        ELSE HashLoop_DropShort(file, pos + Len(content), Sha256Update(h, content))

\* while content := await file.read(hash_chunk_size): hash_obj.update(content)
RECURSIVE HashLoop(_, _, _)
HashLoop(file, pos, h) ==
    LET content == FileRead(file, pos, HashChunkSize)
    IN  IF content = <<>> THEN [pos |-> pos, h |-> h]
        ELSE HashLoop(file, pos + Len(content), Sha256Update(h, content))

(***************************************************************************)
(* content_disposition_header.  A filename is a sequence of characters;    *)
(* the characters of the model are two of ASCII (a letter, which quote     *)
(* leaves alone, and the space, which it escapes) and three beyond ASCII:  *)
(* U+00E9, which NFKD splits into "e" and the combining accent U+0301,     *)
(* the ligature U+FB01, which NFKD replaces by "f" and "i", and U+65E5,    *)
(* which NFKD leaves alone.  A header is the sequence of its pieces.       *)
(***************************************************************************)
MaxNameLen == 2

NameChars == {"a", " ", "U+00E9", "U+FB01", "U+65E5"}

IsAscii(c) == c \in {"a", ".", "t", "x", " ", "e", "f", "i"}

RECURSIVE Concat(_)
Concat(ss) == IF ss = <<>> THEN <<>> ELSE Head(ss) \o Concat(Tail(ss))

\* unicodedata.normalize("NFKD", c) of one character
Nfkd(c) ==
    CASE c = "U+00E9" -> <<"e", "U+0301">>
      [] c = "U+FB01" -> <<"f", "i">>
      [] OTHER        -> <<c>>

normalize(filename) == Concat([i \in 1..Len(filename) |-> Nfkd(filename[i])])

\* .encode("ascii", "ignore").decode("ascii")
encode_ascii_ignore(s) == SelectSeq(s, IsAscii)

\* urllib.parse.quote of one character: the UTF-8 bytes, percent-encoded,
\* of everything but letters, digits and "_.-~/"
QuoteChar(c) ==
    CASE c = " "      -> <<"%20">>
      [] c = "U+00E9" -> <<"%C3", "%A9">>
      [] c = "U+0301" -> <<"%CC", "%81">>
      [] c = "U+FB01" -> <<"%EF", "%AC", "%81">>
      [] c = "U+65E5" -> <<"%E6", "%97", "%A5">>
      [] OTHER        -> <<c>>

quote(filename) == Concat([i \in 1..Len(filename) |-> QuoteChar(filename[i])])

\* content_disposition_header that tells a folded name by its length
content_disposition_header_ByLength(filename, type) ==
    LET ascii == encode_ascii_ignore(normalize(filename))
        header == <<type, "; filename=\"">> \o ascii \o <<"\"">>
    IN  IF Len(ascii) # Len(filename)
        THEN header \o <<"; filename*=UTF-8''">> \o quote(filename)
        ELSE header

content_disposition_header(filename, type) ==
    LET ascii == encode_ascii_ignore(normalize(filename))
        header == <<type, "; filename=\"">> \o ascii \o <<"\"">>
    IN  IF ascii # filename
        THEN header \o <<"; filename*=UTF-8''">> \o quote(filename)
        ELSE header

(***************************************************************************)
(* The bearer token (src/backend/app/api/deps.py, app/auth/oidc.py).  A    *)
(* JWT is described by what the decoding looks at: whether it splits into  *)
(* its segments, the kid of its header, the key that signed it, its        *)
(* issuer, whether exp and iat are there, whether it has expired, and      *)
(* whether the claims TokenPayload requires (sub, aud) are there.  The key *)
(* set of the provider holds the one key "k1"; its issuer is "idp".        *)
(***************************************************************************)
Emails == {"a@x", "b@x"}

Jwks == {"k1"}

Issuer == "idp"

GoodToken(email) ==
    [segments |-> TRUE, kid |-> "k1", signed_by |-> "k1", iss |-> "idp",
     has_exp |-> TRUE, has_iat |-> TRUE, expired |-> FALSE, has_sub |-> TRUE,
     email |-> email]

NoToken == [GoodToken("") EXCEPT !.segments = FALSE, !.kid = ""]

\* the Authorization header is absent
NoAuthorization == [scheme |-> "", token |-> NoToken]

\* jwt.decode: the signature, then the required claims exp and iat, then the
\* expiry, then the issuer; every refusal is an InvalidTokenError
jwt_decode(token, key) ==
    CASE token.signed_by # key -> [raises |-> "InvalidSignatureError"]
      [] ~token.has_exp \/ ~token.has_iat -> [raises |-> "MissingRequiredClaimError"]
      [] token.expired -> [raises |-> "ExpiredSignatureError"]
      [] token.iss # Issuer -> [raises |-> "InvalidIssuerError"]
      [] OTHER -> [raises |-> "", has_sub |-> token.has_sub, email |-> token.email]

\* OpenIDConnectDiscovery.decode_access_token: jwt.get_unverified_header
\* (DecodeError for what is no JWT), ValueError without a kid, self.jwks[kid]
\* (KeyError for a kid the key set does not have), then jwt.decode
decode_access_token(token) ==
    CASE ~token.segments -> [raises |-> "DecodeError"]
      [] token.kid = "" -> [raises |-> "ValueError"]
      [] token.kid \notin Jwks -> [raises |-> "KeyError"]
      [] OTHER -> jwt_decode(token, token.kid)

\* the subclasses of jwt.exceptions.InvalidTokenError
InvalidTokenError ==
    {"DecodeError", "InvalidSignatureError", "MissingRequiredClaimError",
     "ExpiredSignatureError", "InvalidIssuerError"}

\* TokenPayload.model_validate(payload): ValidationError when a required
\* claim is missing
model_validate(payload) ==
    IF payload.raises = "" /\ ~payload.has_sub
    THEN [raises |-> "ValidationError"]
    ELSE payload

\* get_token_payload: 401 unless the scheme is bearer (in any case of the
\* letters); the payload when the token decodes and TokenPayload validates;
\* 403 for InvalidTokenError and ValidationError; any other exception leaves
\* the dependency unhandled and the framework answers 500
get_token_payload(authorization) ==
    IF authorization.scheme \notin {"Bearer", "bearer"}
    THEN [status |-> 401, detail |-> "Not authenticated", email |-> ""]
    ELSE LET payload == model_validate(decode_access_token(authorization.token))
         IN  CASE payload.raises \in InvalidTokenError \cup {"ValidationError"} ->
                    [status |-> 403,
                     detail |-> "Could not validate credentials: " \o payload.raises,
                     email |-> ""]
               [] payload.raises # "" ->
                    [status |-> 500, detail |-> "Internal Server Error", email |-> ""]
               [] OTHER -> [status |-> 200, detail |-> "", email |-> payload.email]

(***************************************************************************)
(* Rows, keys and requests.                                                *)
(***************************************************************************)
NoAttachment ==
    [id |-> 0, item_id |-> 0, filename |-> <<>>, content_type |-> "",
     filesize |-> 0, checksum_sha256 |-> NULL]

Row(att) ==
    [item_id |-> att.item_id, filename |-> att.filename,
     content_type |-> att.content_type, filesize |-> att.filesize,
     checksum_sha256 |-> att.checksum_sha256]

Loaded(id) ==
    [id |-> id, item_id |-> attachments[id].item_id,
     filename |-> attachments[id].filename,
     content_type |-> attachments[id].content_type,
     filesize |-> attachments[id].filesize,
     checksum_sha256 |-> attachments[id].checksum_sha256]

\* attachment_path with one key for all the attachments of an item
attachment_path_PerItem(att) == <<"item_", att.item_id, "/attachments/", 0>>

attachment_path(att) == <<"item_", att.item_id, "/attachments/", att.id>>

NewRequest(op, item_id, attachment_id, file, filename, content_type) ==
    [op |-> op, pc |-> "get_item",
     item_id |-> item_id, attachment_id |-> attachment_id,
     file |-> file, filename |-> filename, content_type |-> content_type,
     pos |-> 0,
     att |-> NoAttachment,      \* the Attachment object of the session
     marked |-> FALSE,          \* session.delete(attachment) is pending
     status |-> 0, detail |-> "", body |-> <<>>,
     disposition |-> <<>>,      \* the Content-Disposition header of the response
     authorization |-> NoAuthorization,  \* the Authorization header
     email |-> "",              \* the email of the validated token payload
     user |-> 0,                \* the id of the User the dependencies resolved
     \* what the request has seen and done, kept for the properties
     sawItem |-> FALSE,         \* session.get(Item, item_id) found the item
     storeCalls |-> 0,          \* calls made to the object store
     blob |-> "none",           \* how the call to the object store ended
     createdOk |-> FALSE,       \* get: the create of attachment_id had returned 200
     after200 |-> FALSE,        \* delete: a delete of the same ids had returned 200
     raced |-> FALSE,           \* a delete had removed the blob before this call
     committed |-> FALSE]       \* the last commit of the handler succeeded

Requests == 1..Len(reqs)

Running(r) == r \in Requests /\ reqs[r].pc # "done"

At(r, op, pc) == r \in Requests /\ reqs[r].op = op /\ reqs[r].pc = pc

Set(r, rec) == reqs' = [reqs EXCEPT ![r] = rec]

Respond(q, status, detail) ==
    [q EXCEPT !.pc = "done", !.status = status, !.detail = detail]

\* a delete_attachment request for attachment a has had its blob delete done
BlobDeleted(a) ==
    \E d \in Requests :
        reqs[d].op = "delete" /\ reqs[d].att.id = a /\ reqs[d].blob \in {"ok", "absent"}

\* the function f without the key k, and with k set to v
Without(f, k) == [x \in DOMAIN f \ {k} |-> f[x]]

With(f, k, v) == [x \in DOMAIN f \cup {k} |-> IF x = k THEN v ELSE f[x]]

NoRows == [x \in {} |-> NoAttachment]

NoBlobs == [x \in {} |-> <<>>]

Init ==
    /\ InitRest
    /\ items = {}
    /\ nextItemId = 1
    /\ attachments = NoRows
    /\ nextAttId = 1
    /\ store = NoBlobs
    /\ reqs = <<>>

(***************************************************************************)
(* Items (src/backend/app/api/routes/items.py).                            *)
(***************************************************************************)
\* session.add(item); await session.commit(), while the model has room for it
create_itemUpTo(cap) ==
    /\ nextItemId <= cap
    /\ items' = items \cup {nextItemId}
    /\ nextItemId' = nextItemId + 1
    /\ UNCHANGED <<attachments, nextAttId, store, reqs>>

create_item == create_itemUpTo(MaxItems)

(***************************************************************************)
(* The arrival of a request.                                               *)
(***************************************************************************)
StartCreate(item_id, file, filename, content_type) ==
    /\ Len(reqs) < MaxRequests
    /\ reqs' = Append(reqs, NewRequest("create", item_id, 0, file, filename, content_type))
    /\ UNCHANGED <<items, nextItemId, attachments, nextAttId, store>>

StartGet(item_id, attachment_id) ==
    /\ Len(reqs) < MaxRequests
    /\ reqs' = Append(reqs,
            [NewRequest("get", item_id, attachment_id, <<>>, <<>>, "") EXCEPT
                !.createdOk = \E c \in Requests :
                    /\ reqs[c].op = "create" /\ reqs[c].status = 200
                    /\ reqs[c].att.id = attachment_id
                    /\ reqs[c].item_id = item_id])
    /\ UNCHANGED <<items, nextItemId, attachments, nextAttId, store>>

StartDelete(item_id, attachment_id) ==
    /\ Len(reqs) < MaxRequests
    /\ reqs' = Append(reqs,
            [NewRequest("delete", item_id, attachment_id, <<>>, <<>>, "") EXCEPT
                !.after200 = \E d \in Requests :
                    /\ reqs[d].op = "delete" /\ reqs[d].status = 200
                    /\ reqs[d].attachment_id = attachment_id
                    /\ reqs[d].item_id = item_id])
    /\ UNCHANGED <<items, nextItemId, attachments, nextAttId, store>>

\* GetItem with the check for a missing item left out
GetItem_NoCheck(r, next) ==
    [reqs[r] EXCEPT !.pc = next, !.sawItem = TRUE]

(***************************************************************************)
(* item = await session.get(Item, item_id); 404 when there is none.        *)
(* The same first step in the three handlers.                              *)
(***************************************************************************)
GetItem(r, next) ==
    LET q == reqs[r]
    IN  IF q.item_id \in items
        THEN [q EXCEPT !.pc = next, !.sawItem = TRUE]
        ELSE Respond(q, 404, "Item not found")

\* GetAttachmentRow answering a missing row with the message of a missing item
GetAttachmentRow_SameDetail(r, next) ==
    LET q == reqs[r]
    IN  IF q.attachment_id \in DOMAIN attachments
        THEN [q EXCEPT !.pc = next, !.att = Loaded(q.attachment_id)]
        ELSE Respond(q, 404, "Item not found")

(***************************************************************************)
(* attachment = await session.get(Attachment, attachment_id); 404 when     *)
(* there is none.  The row is looked up by its id alone.                   *)
(***************************************************************************)
GetAttachmentRow(r, next) ==
    LET q == reqs[r]
    IN  IF q.attachment_id \in DOMAIN attachments
        THEN [q EXCEPT !.pc = next, !.att = Loaded(q.attachment_id)]
        ELSE Respond(q, 404, "Attachment not found")

(***************************************************************************)
(* create_attachment                                                       *)
(***************************************************************************)
CreateGetItem(r) ==
    /\ At(r, "create", "get_item")
    /\ Set(r, GetItem(r, "insert"))
    /\ UNCHANGED <<items, nextItemId, attachments, nextAttId, store>>

\* CreateInsertUpTo with the smallest id that no row has (MAX(id) + 1 or a
\* restarted sequence) in place of the identity column
CreateInsertUpTo_ReuseId(r, cap) ==
    /\ At(r, "create", "insert")
    /\ LET q == reqs[r]
           free == {a \in 1..cap : a \notin DOMAIN attachments}
           new == CHOOSE a \in free : \A b \in free : a <= b
           att == [id |-> new, item_id |-> q.item_id,
                   filename |-> q.filename, content_type |-> q.content_type,
                   filesize |-> Len(q.file), checksum_sha256 |-> NULL]
       IN  \/ /\ free # {}
              /\ attachments' = With(attachments, att.id, Row(att))
              /\ nextAttId' = IF new >= nextAttId THEN new + 1 ELSE nextAttId
              /\ Set(r, [q EXCEPT !.pc = "refresh", !.att = att])
           \/ /\ Set(r, Respond(q, 500, "Internal Server Error"))
              /\ UNCHANGED <<attachments, nextAttId>>
    /\ UNCHANGED <<items, nextItemId, store>>

\* session.add(attachment); await session.commit(): the row is inserted with
\* the next identity value and no checksum.  A commit that fails inserts
\* nothing; the foreign key item_id makes it fail when the item is gone.
CreateInsertUpTo(r, cap) ==
    /\ At(r, "create", "insert")
    /\ LET q == reqs[r]
           att == [id |-> nextAttId, item_id |-> q.item_id,
                   filename |-> q.filename, content_type |-> q.content_type,
                   filesize |-> Len(q.file), checksum_sha256 |-> NULL]
       IN  \/ /\ nextAttId <= cap
              /\ q.item_id \in items
              /\ attachments' = With(attachments, att.id, Row(att))
              /\ nextAttId' = nextAttId + 1
              /\ Set(r, [q EXCEPT !.pc = "refresh", !.att = att])
           \/ /\ Set(r, Respond(q, 500, "Internal Server Error"))
              /\ UNCHANGED <<attachments, nextAttId>>
    /\ UNCHANGED <<items, nextItemId, store>>

CreateInsert(r) == CreateInsertUpTo(r, MaxAttachments)

\* await session.refresh(attachment): fails when the row is gone
CreateRefresh(r) ==
    /\ At(r, "create", "refresh")
    /\ LET q == reqs[r]
       IN  IF q.att.id \in DOMAIN attachments
           THEN Set(r, [q EXCEPT !.pc = "hash", !.att = Loaded(q.att.id)])
           ELSE Set(r, Respond(q, 500, "Internal Server Error"))
    /\ UNCHANGED <<items, nextItemId, attachments, nextAttId, store>>

\* CreateHash with the rewind forgotten: the stream stays at its end
CreateHash_NoSeek(r) ==
    /\ At(r, "create", "hash")
    /\ LET q == reqs[r]
           end == HashLoop(q.file, q.pos, Sha256Init)
       IN  Set(r, [q EXCEPT !.pc = "put",
                            !.att.checksum_sha256 = HexDigest(end.h),
                            !.pos = end.pos])
    /\ UNCHANGED <<items, nextItemId, attachments, nextAttId, store>>

\* CreateHash with the checksum written through to the database at once
CreateHash_Flush(r) ==
    /\ At(r, "create", "hash")
    /\ LET q == reqs[r]
           end == HashLoop(q.file, q.pos, Sha256Init)
       IN  /\ Set(r, [q EXCEPT !.pc = "put",
                               !.att.checksum_sha256 = HexDigest(end.h),
                               !.pos = 0])
           /\ attachments' =
                IF q.att.id \in DOMAIN attachments
                THEN [attachments EXCEPT ![q.att.id].checksum_sha256 = HexDigest(end.h)]
                ELSE attachments
    /\ UNCHANGED <<items, nextItemId, nextAttId, store>>

\* the hashing loop, attachment.checksum_sha256 = hash_obj.hexdigest() (on the
\* object of the session, not in the database) and await file.seek(0)
CreateHash(r) ==
    /\ At(r, "create", "hash")
    /\ LET q == reqs[r]
           end == HashLoop(q.file, q.pos, Sha256Init)
       IN  Set(r, [q EXCEPT !.pc = "put",
                            !.att.checksum_sha256 = HexDigest(end.h),
                            !.pos = 0])
    /\ UNCHANGED <<items, nextItemId, attachments, nextAttId, store>>

\* CreatePut that does not await the put: the handler goes on to its commit
\* with the blob not written yet
CreatePut_NotAwaited(r) ==
    /\ At(r, "create", "put")
    /\ Set(r, [reqs[r] EXCEPT !.pc = "commit", !.raced = BlobDeleted(reqs[r].att.id)])
    /\ UNCHANGED <<items, nextItemId, attachments, nextAttId, store>>

\* CreatePut that records a failed upload in the row
CreatePut_MarkFailed(r) ==
    /\ At(r, "create", "put")
    /\ LET q == reqs[r]
           path == attachment_path(q.att)
           sent == [q EXCEPT !.storeCalls = @ + 1, !.raced = BlobDeleted(q.att.id)]
       IN  \/ /\ store' = With(store, path, SubSeq(q.file, q.pos + 1, Len(q.file)))
              /\ Set(r, [sent EXCEPT !.pc = "commit", !.blob = "ok",
                                     !.pos = Len(q.file)])
              /\ UNCHANGED attachments
           \/ /\ Set(r, [Respond(sent, 500, "Upload failed") EXCEPT !.blob = "error"])
              /\ attachments' =
                    IF q.att.id \in DOMAIN attachments
                    THEN [attachments EXCEPT ![q.att.id].checksum_sha256 = NULL - 1]
                    ELSE attachments
              /\ UNCHANGED store
    /\ UNCHANGED <<items, nextItemId, nextAttId>>

\* CreatePut with the exception swallowed: the handler goes on to its commit
CreatePut_Swallow(r) ==
    /\ At(r, "create", "put")
    /\ LET q == reqs[r]
           path == attachment_path(q.att)
           sent == [q EXCEPT !.storeCalls = @ + 1, !.raced = BlobDeleted(q.att.id)]
       IN  \/ /\ store' = With(store, path, SubSeq(q.file, q.pos + 1, Len(q.file)))
              /\ Set(r, [sent EXCEPT !.pc = "commit", !.blob = "ok",
                                     !.pos = Len(q.file)])
           \/ /\ Set(r, [sent EXCEPT !.pc = "commit", !.blob = "error"])
              /\ UNCHANGED store
    /\ UNCHANGED <<items, nextItemId, attachments, nextAttId>>

\* CreatePut that removes the row of a failed upload
CreatePut_Cleanup(r) ==
    /\ At(r, "create", "put")
    /\ LET q == reqs[r]
           path == attachment_path(q.att)
           sent == [q EXCEPT !.storeCalls = @ + 1, !.raced = BlobDeleted(q.att.id)]
       IN  \/ /\ store' = With(store, path, SubSeq(q.file, q.pos + 1, Len(q.file)))
              /\ Set(r, [sent EXCEPT !.pc = "commit", !.blob = "ok",
                                     !.pos = Len(q.file)])
              /\ UNCHANGED attachments
           \/ /\ Set(r, [Respond(sent, 500, "Upload failed") EXCEPT !.blob = "error"])
              /\ attachments' = Without(attachments, q.att.id)
              /\ UNCHANGED store
    /\ UNCHANGED <<items, nextItemId, nextAttId>>

\* await obstore.put_async(store, path, file.file): the file from its position
\* on is stored at the key; any exception is answered with 500 "Upload failed"
CreatePut(r) ==
    /\ At(r, "create", "put")
    /\ LET q == reqs[r]
           path == attachment_path(q.att)
           sent == [q EXCEPT !.storeCalls = @ + 1, !.raced = BlobDeleted(q.att.id)]
       IN  \/ /\ store' = With(store, path, SubSeq(q.file, q.pos + 1, Len(q.file)))
              /\ Set(r, [sent EXCEPT !.pc = "commit", !.blob = "ok",
                                     !.pos = Len(q.file)])
           \/ /\ Set(r, [Respond(sent, 500, "Upload failed") EXCEPT !.blob = "error"])
              /\ UNCHANGED store
    /\ UNCHANGED <<items, nextItemId, attachments, nextAttId>>

\* session.add(attachment); await session.commit(): UPDATE of the checksum.
\* The UPDATE of a row that is gone matches no row and raises (StaleDataError).
CreateCommit(r) ==
    /\ At(r, "create", "commit")
    /\ LET q == reqs[r]
       IN  \/ /\ q.att.id \in DOMAIN attachments
              /\ attachments' = [attachments EXCEPT
                    ![q.att.id].checksum_sha256 = q.att.checksum_sha256]
              /\ Set(r, [q EXCEPT !.pc = "refresh2", !.committed = TRUE])
           \/ /\ Set(r, Respond(q, 500, "Internal Server Error"))
              /\ UNCHANGED attachments
    /\ UNCHANGED <<items, nextItemId, nextAttId, store>>

\* await session.refresh(attachment); return attachment
CreateReturn(r) ==
    /\ At(r, "create", "refresh2")
    /\ LET q == reqs[r]
       IN  IF q.att.id \in DOMAIN attachments
           THEN Set(r, [Respond(q, 200, "") EXCEPT !.att = Loaded(q.att.id)])
           ELSE Set(r, Respond(q, 500, "Internal Server Error"))
    /\ UNCHANGED <<items, nextItemId, attachments, nextAttId, store>>

(***************************************************************************)
(* get_attachment                                                          *)
(***************************************************************************)
GetGetItem(r) ==
    /\ At(r, "get", "get_item")
    /\ Set(r, GetItem(r, "get_attachment"))
    /\ UNCHANGED <<items, nextItemId, attachments, nextAttId, store>>

GetGetAttachment(r) ==
    /\ At(r, "get", "get_attachment")
    /\ Set(r, [GetAttachmentRow(r, "get_blob") EXCEPT
                !.raced = BlobDeleted(reqs[r].attachment_id)])
    /\ UNCHANGED <<items, nextItemId, attachments, nextAttId, store>>

\* GetAnswer without the FileNotFoundError clause: the general clause answers
GetAnswer_NoFileNotFound(q, outcome, bytes) ==
    CASE outcome = "ok" ->
            [Respond(q, 200, "") EXCEPT
                !.body = bytes,
                !.disposition = content_disposition_header(q.att.filename, "attachment")]
      [] OTHER -> Respond(q, 500, "Download failed")

\* the answer to what obstore.get_async did: the stream of the blob,
\* FileNotFoundError, or any other exception
GetAnswer(q, outcome, bytes) ==
    CASE outcome = "ok" ->
            [Respond(q, 200, "") EXCEPT
                !.body = bytes,
                !.disposition = content_disposition_header(q.att.filename, "attachment")]
      [] outcome = "absent" -> Respond(q, 404, "Attachment not found in object store")
      [] OTHER -> Respond(q, 500, "Download failed")

\* resp = await obstore.get_async(store, path)
GetBlob(r) ==
    /\ At(r, "get", "get_blob")
    /\ LET q == reqs[r]
           path == attachment_path(q.att)
           sent == [q EXCEPT !.storeCalls = @ + 1, !.raced = BlobDeleted(q.att.id)]
       IN  \E outcome \in {IF path \in DOMAIN store THEN "ok" ELSE "absent", "error"} :
               Set(r, [GetAnswer(sent, outcome,
                                 IF path \in DOMAIN store THEN store[path] ELSE <<>>)
                          EXCEPT !.blob = outcome])
    /\ UNCHANGED <<items, nextItemId, attachments, nextAttId, store>>

(***************************************************************************)
(* delete_attachment                                                       *)
(***************************************************************************)
DeleteGetItem(r) ==
    /\ At(r, "delete", "get_item")
    /\ Set(r, GetItem(r, "get_attachment"))
    /\ UNCHANGED <<items, nextItemId, attachments, nextAttId, store>>

DeleteGetAttachment(r) ==
    /\ At(r, "delete", "get_attachment")
    /\ Set(r, GetAttachmentRow(r, "mark"))
    /\ UNCHANGED <<items, nextItemId, attachments, nextAttId, store>>

\* DeleteMark that deletes the row in the database at once
DeleteMark_Commit(r) ==
    /\ At(r, "delete", "mark")
    /\ Set(r, [reqs[r] EXCEPT !.pc = "delete_blob", !.marked = TRUE])
    /\ attachments' = Without(attachments, reqs[r].att.id)
    /\ UNCHANGED <<items, nextItemId, nextAttId, store>>

\* await session.delete(attachment): pending in the session, not in the database
DeleteMark(r) ==
    /\ At(r, "delete", "mark")
    /\ Set(r, [reqs[r] EXCEPT !.pc = "delete_blob", !.marked = TRUE])
    /\ UNCHANGED <<items, nextItemId, attachments, nextAttId, store>>

\* DeleteBlob that surfaces FileNotFoundError as an error response
DeleteBlob_Strict(r) ==
    /\ At(r, "delete", "delete_blob")
    /\ LET q == reqs[r]
           path == attachment_path(q.att)
           sent == [q EXCEPT !.storeCalls = @ + 1]
       IN  \/ /\ path \in DOMAIN store
              /\ store' = Without(store, path)
              /\ Set(r, [sent EXCEPT !.pc = "commit", !.blob = "ok"])
           \/ /\ path \notin DOMAIN store
              /\ Set(r, [Respond(sent, 500, "Internal Server Error") EXCEPT
                            !.blob = "absent"])
              /\ UNCHANGED store
           \/ /\ Set(r, [Respond(sent, 500, "Internal Server Error") EXCEPT
                            !.blob = "error"])
              /\ UNCHANGED store
    /\ UNCHANGED <<items, nextItemId, attachments, nextAttId>>

\* DeleteBlob that reports the failure of the store and commits the row
\* deletion all the same
DeleteBlob_CommitAnyway(r) ==
    /\ At(r, "delete", "delete_blob")
    /\ LET q == reqs[r]
           path == attachment_path(q.att)
           sent == [q EXCEPT !.storeCalls = @ + 1]
       IN  \/ /\ store' = Without(store, path)
              /\ Set(r, [sent EXCEPT !.pc = "commit",
                            !.blob = IF path \in DOMAIN store THEN "ok" ELSE "absent"])
              /\ UNCHANGED attachments
           \/ /\ Set(r, [Respond(sent, 500, "Internal Server Error") EXCEPT
                            !.blob = "error"])
              /\ attachments' = Without(attachments, q.att.id)
              /\ UNCHANGED store
    /\ UNCHANGED <<items, nextItemId, nextAttId>>

\* DeleteBlob at the key built from the path parameters of the request
DeleteBlob_RequestPath(r) ==
    /\ At(r, "delete", "delete_blob")
    /\ LET q == reqs[r]
           path == <<"item_", q.item_id, "/attachments/", q.attachment_id>>
           sent == [q EXCEPT !.storeCalls = @ + 1]
       IN  \/ /\ store' = Without(store, path)
              /\ Set(r, [sent EXCEPT !.pc = "commit",
                            !.blob = IF path \in DOMAIN store THEN "ok" ELSE "absent"])
           \/ /\ Set(r, [Respond(sent, 500, "Internal Server Error") EXCEPT
                            !.blob = "error"])
              /\ UNCHANGED store
    /\ UNCHANGED <<items, nextItemId, attachments, nextAttId>>

\* DeleteBlob that leaves the blob in the store
DeleteBlob_Skip(r) ==
    /\ At(r, "delete", "delete_blob")
    /\ LET q == reqs[r]
           path == attachment_path(q.att)
           sent == [q EXCEPT !.storeCalls = @ + 1]
       IN  Set(r, [sent EXCEPT !.pc = "commit",
                        !.blob = IF path \in DOMAIN store THEN "ok" ELSE "absent"])
    /\ UNCHANGED <<items, nextItemId, attachments, nextAttId, store>>

\* await obstore.delete_async(store, path): the blob is removed; a blob that is
\* absent is either passed over in silence or reported with FileNotFoundError,
\* which the handler logs and ignores; any other exception ends the request
DeleteBlob(r) ==
    /\ At(r, "delete", "delete_blob")
    /\ LET q == reqs[r]
           path == attachment_path(q.att)
           sent == [q EXCEPT !.storeCalls = @ + 1]
       IN  \/ /\ store' = Without(store, path)
              /\ Set(r, [sent EXCEPT !.pc = "commit",
                            !.blob = IF path \in DOMAIN store THEN "ok" ELSE "absent"])
           \/ /\ Set(r, [Respond(sent, 500, "Internal Server Error") EXCEPT
                            !.blob = "error"])
              /\ UNCHANGED store
    /\ UNCHANGED <<items, nextItemId, attachments, nextAttId>>

\* DeleteCommit that answers 200 and leaves the row
DeleteCommit_KeepRow(r) ==
    /\ At(r, "delete", "commit")
    /\ Set(r, [Respond(reqs[r], 200, "Attachment deleted successfully") EXCEPT
                    !.committed = TRUE])
    /\ UNCHANGED <<items, nextItemId, attachments, nextAttId, store>>

\* await session.commit(): the DELETE of the row (of a row that is gone: a
\* warning only); return Message(detail="Attachment deleted successfully")
DeleteCommit(r) ==
    /\ At(r, "delete", "commit")
    /\ LET q == reqs[r]
       IN  \/ /\ attachments' = Without(attachments, q.att.id)
              /\ Set(r, [Respond(q, 200, "Attachment deleted successfully") EXCEPT
                            !.committed = TRUE])
           \/ /\ Set(r, Respond(q, 500, "Internal Server Error"))
              /\ UNCHANGED attachments
    /\ UNCHANGED <<items, nextItemId, nextAttId, store>>

(***************************************************************************)
(* The caller disconnects: the handler is cancelled at its await, the      *)
(* session is closed and what it had not committed is rolled back.         *)
(***************************************************************************)
Abort(r) ==
    /\ Running(r)
    /\ Set(r, [reqs[r] EXCEPT !.pc = "done", !.detail = "aborted"])
    /\ UNCHANGED <<items, nextItemId, attachments, nextAttId, store>>

Next ==
    \/ create_item /\ UNCHANGED restVars
    \/ \E i \in ItemIds, f \in Contents, n \in Filenames, t \in ContentTypes :
            StartCreate(i, f, n, t) /\ UNCHANGED restVars
    \/ \E i \in ItemIds, a \in AttIds : StartGet(i, a) /\ UNCHANGED restVars
    \/ \E i \in ItemIds, a \in AttIds : StartDelete(i, a) /\ UNCHANGED restVars
    \/ \E r \in Requests : CreateGetItem(r) /\ UNCHANGED restVars
    \/ \E r \in Requests : CreateInsert(r) /\ UNCHANGED restVars
    \/ \E r \in Requests : CreateRefresh(r) /\ UNCHANGED restVars
    \/ \E r \in Requests : CreateHash(r) /\ UNCHANGED restVars
    \/ \E r \in Requests : CreatePut(r) /\ UNCHANGED restVars
    \/ \E r \in Requests : CreateCommit(r) /\ UNCHANGED restVars
    \/ \E r \in Requests : CreateReturn(r) /\ UNCHANGED restVars
    \/ \E r \in Requests : GetGetItem(r) /\ UNCHANGED restVars
    \/ \E r \in Requests : GetGetAttachment(r) /\ UNCHANGED restVars
    \/ \E r \in Requests : GetBlob(r) /\ UNCHANGED restVars
    \/ \E r \in Requests : DeleteGetItem(r) /\ UNCHANGED restVars
    \/ \E r \in Requests : DeleteGetAttachment(r) /\ UNCHANGED restVars
    \/ \E r \in Requests : DeleteMark(r) /\ UNCHANGED restVars
    \/ \E r \in Requests : DeleteBlob(r) /\ UNCHANGED restVars
    \/ \E r \in Requests : DeleteCommit(r) /\ UNCHANGED restVars
    \/ \E r \in Requests : Abort(r) /\ UNCHANGED restVars

Spec == Init /\ [][Next]_vars

(***************************************************************************)
(* The same handlers with room for one more item, so that a request can    *)
(* name an existing item that is not the item of the attachment.  Uploads  *)
(* carry the one file of MaxLen bytes.                                     *)
(***************************************************************************)
FullFile == [i \in 1..MaxLen |-> i]

NextTwoItems ==
    \/ create_itemUpTo(MaxItems + 1) /\ UNCHANGED restVars
    \/ \E i \in ItemIds, n \in Filenames, t \in ContentTypes :
            StartCreate(i, FullFile, n, t) /\ UNCHANGED restVars
    \/ \E i \in ItemIds, a \in AttIds : StartGet(i, a) /\ UNCHANGED restVars
    \/ \E i \in ItemIds, a \in AttIds : StartDelete(i, a) /\ UNCHANGED restVars
    \/ \E r \in Requests : CreateGetItem(r) /\ UNCHANGED restVars
    \/ \E r \in Requests : CreateInsert(r) /\ UNCHANGED restVars
    \/ \E r \in Requests : CreateRefresh(r) /\ UNCHANGED restVars
    \/ \E r \in Requests : CreateHash(r) /\ UNCHANGED restVars
    \/ \E r \in Requests : CreatePut(r) /\ UNCHANGED restVars
    \/ \E r \in Requests : CreateCommit(r) /\ UNCHANGED restVars
    \/ \E r \in Requests : CreateReturn(r) /\ UNCHANGED restVars
    \/ \E r \in Requests : GetGetItem(r) /\ UNCHANGED restVars
    \/ \E r \in Requests : GetGetAttachment(r) /\ UNCHANGED restVars
    \/ \E r \in Requests : GetBlob(r) /\ UNCHANGED restVars
    \/ \E r \in Requests : DeleteGetItem(r) /\ UNCHANGED restVars
    \/ \E r \in Requests : DeleteGetAttachment(r) /\ UNCHANGED restVars
    \/ \E r \in Requests : DeleteMark(r) /\ UNCHANGED restVars
    \/ \E r \in Requests : DeleteBlob(r) /\ UNCHANGED restVars
    \/ \E r \in Requests : DeleteCommit(r) /\ UNCHANGED restVars
    \/ \E r \in Requests : Abort(r) /\ UNCHANGED restVars

SpecTwoItems == Init /\ [][NextTwoItems]_vars

(***************************************************************************)
(* The requests of each handler that have ended with an answer.            *)
(***************************************************************************)
Created(c) == c \in Requests /\ reqs[c].op = "create" /\ reqs[c].status = 200

Answered(r, op) ==
    r \in Requests /\ reqs[r].op = op /\ reqs[r].pc = "done" /\ reqs[r].detail # "aborted"

\* C1: a get_attachment that starts after the create_attachment of the same
\* item id and attachment id has returned success, with no blob delete of
\* that attachment before it reads, streams exactly the uploaded bytes (500
\* "Download failed" when the store call raises), and the checksum of the
\* record, as returned by the create and as read by the get, is the SHA-256
\* digest of those bytes.
C1_RoundTrip ==
    \A g \in Requests, c \in Requests :
        ( /\ Answered(g, "get") /\ Created(c)
          /\ reqs[g].createdOk /\ reqs[g].sawItem /\ ~reqs[g].raced
          /\ reqs[c].att.id = reqs[g].attachment_id
          /\ reqs[c].item_id = reqs[g].item_id )
        => /\ reqs[g].blob \in {"ok", "error"}
           /\ reqs[g].blob = "ok" => reqs[g].status = 200 /\ reqs[g].body = reqs[c].file
           /\ reqs[g].blob = "error" => reqs[g].status = 500
           /\ reqs[c].att.checksum_sha256 = Sha256(reqs[c].file)
           /\ reqs[g].att.checksum_sha256 = Sha256(reqs[c].file)

\* a file of more than one chunk was uploaded and streamed back
C1_Witness ==
    \E g \in Requests, c \in Requests :
        /\ Answered(g, "get") /\ Created(c)
        /\ reqs[g].createdOk /\ ~reqs[g].raced
        /\ reqs[c].att.id = reqs[g].attachment_id
        /\ Len(reqs[c].file) > HashChunkSize
        /\ reqs[g].status = 200 /\ reqs[g].body = reqs[c].file

\* C2: a committed Attachment row has a checksum only if the create request of
\* that row had its blob put succeed and then committed; the checksum held in
\* the session of a create that failed or was aborted before its last commit
\* is not in the database.
C2_ChecksumImpliesBlobPut ==
    /\ \A a \in DOMAIN attachments :
        attachments[a].checksum_sha256 # NULL
        => \E c \in Requests :
            /\ reqs[c].op = "create" /\ reqs[c].att.id = a
            /\ reqs[c].blob = "ok" /\ reqs[c].committed
    /\ \A c \in Requests :
        ( /\ reqs[c].op = "create" /\ ~reqs[c].committed
          /\ reqs[c].att.id \in DOMAIN attachments )
        => attachments[reqs[c].att.id].checksum_sha256 = NULL

\* a create aborted between the blob put and the commit: its checksum is in
\* the session only
C2_Witness ==
    \E c \in Requests :
        /\ reqs[c].op = "create" /\ reqs[c].pc = "done" /\ reqs[c].detail = "aborted"
        /\ reqs[c].blob = "ok"
        /\ reqs[c].att.checksum_sha256 # NULL
        /\ reqs[c].att.id \in DOMAIN attachments
        /\ attachments[reqs[c].att.id].checksum_sha256 = NULL

\* the step of request r: its record changes, and not by the caller's disconnect
Steps(r) == reqs'[r] # reqs[r] /\ reqs'[r].detail # "aborted"

Dangling(a) ==
    /\ a \in DOMAIN attachments
    /\ attachments[a].checksum_sha256 # NULL
    /\ attachment_path(Loaded(a)) \notin DOMAIN store

\* C3, as claimed: no committed Attachment row with a checksum has its blob
\* absent from the object store.
C3_NoDanglingReference == \A a \in AttIds : ~Dangling(a)

\* C3, amended: a committed row with a checksum whose blob is absent is what
\* delete_attachment leaves after its blob delete and before its commit: there
\* is a delete request for that row that marked it, removed the blob and has
\* not committed the deletion (it is about to, or its commit failed, or it
\* was aborted).
C3_DanglingOnlyFromDelete ==
    \A a \in AttIds :
        Dangling(a)
        => \E d \in Requests :
            /\ reqs[d].op = "delete" /\ reqs[d].att.id = a
            /\ reqs[d].marked /\ reqs[d].blob = "ok" /\ ~reqs[d].committed

\* the commit of a delete failed after the blob was removed, and a concurrent
\* get_attachment was answered that the blob is missing
C3_Witness ==
    \E a \in AttIds, d \in Requests, g \in Requests :
        /\ Dangling(a)
        /\ reqs[d].op = "delete" /\ reqs[d].att.id = a
        /\ reqs[d].pc = "done" /\ reqs[d].status = 500 /\ reqs[d].blob = "ok"
        /\ reqs[g].op = "get" /\ reqs[g].att.id = a /\ reqs[g].blob = "absent"

\* C4: the only step that removes a committed Attachment row is the commit of
\* a delete_attachment request that had marked the row and whose blob delete
\* had returned (the blob removed, or already absent).
C4_DeleteOrdering ==
    [][ \A a \in DOMAIN attachments :
            a \notin DOMAIN attachments'
            => \E d \in Requests :
                /\ reqs[d].op = "delete" /\ reqs[d].pc = "commit"
                /\ reqs[d].att.id = a /\ reqs[d].marked
                /\ reqs[d].blob \in {"ok", "absent"}
                /\ reqs'[d].pc = "done" /\ reqs'[d].committed ]_vars

\* a delete removed the blob and then committed the deletion of the row
C4_Witness ==
    \E d \in Requests :
        /\ reqs[d].op = "delete" /\ reqs[d].status = 200
        /\ reqs[d].marked /\ reqs[d].blob = "ok" /\ reqs[d].committed
        /\ reqs[d].att.id \notin DOMAIN attachments

\* C5, as claimed: after delete_attachment has returned 200 the row is absent
\* and no blob is at the key of the attachment.
C5_DeleteEndState ==
    \A d \in Requests :
        (reqs[d].op = "delete" /\ reqs[d].status = 200)
        => /\ reqs[d].att.id \notin DOMAIN attachments
           /\ attachment_path(reqs[d].att) \notin DOMAIN store

\* C5, amended: after delete_attachment has returned 200 the row is absent,
\* and a blob at the key of the attachment is the blob of the create request
\* of that attachment, put after a blob delete of that attachment.
C5_DeleteEndStateButLatePut ==
    \A d \in Requests :
        (reqs[d].op = "delete" /\ reqs[d].status = 200)
        => /\ reqs[d].att.id \notin DOMAIN attachments
           /\ attachment_path(reqs[d].att) \in DOMAIN store
              => \E c \in Requests :
                    /\ reqs[c].op = "create" /\ reqs[c].att.id = reqs[d].att.id
                    /\ reqs[c].blob = "ok" /\ reqs[c].raced
                    /\ store[attachment_path(reqs[d].att)] = reqs[c].file

\* a delete returned 200 while the create of the attachment was running; the
\* put of the create then left a blob with no row
C5_Witness ==
    \E d \in Requests, c \in Requests :
        /\ reqs[d].op = "delete" /\ reqs[d].status = 200
        /\ reqs[c].op = "create" /\ reqs[c].att.id = reqs[d].att.id
        /\ reqs[c].raced /\ reqs[c].pc = "done"
        /\ attachment_path(reqs[d].att) \in DOMAIN store
        /\ reqs[d].att.id \notin DOMAIN attachments

\* C6: a create_attachment whose blob put raised has answered 500 "Upload
\* failed" after one call to the store and without a commit of the checksum;
\* its row is in the database with no checksum, unless a delete_attachment
\* request has committed the deletion of that row.
C6_UploadFailure ==
    \A c \in Requests :
        (reqs[c].op = "create" /\ reqs[c].blob = "error")
        => /\ reqs[c].pc = "done"
           /\ reqs[c].status = 500 /\ reqs[c].detail = "Upload failed"
           /\ reqs[c].storeCalls = 1
           /\ ~reqs[c].committed
           /\ \/ /\ reqs[c].att.id \in DOMAIN attachments
                 /\ attachments[reqs[c].att.id].checksum_sha256 = NULL
              \/ \E d \in Requests :
                    /\ reqs[d].op = "delete" /\ reqs[d].att.id = reqs[c].att.id
                    /\ reqs[d].committed

\* the put of a non-empty file failed: the row is there, without a checksum
C6_Witness ==
    \E c \in Requests :
        /\ reqs[c].op = "create" /\ reqs[c].blob = "error"
        /\ reqs[c].status = 500
        /\ reqs[c].file # <<>>
        /\ reqs[c].att.checksum_sha256 # NULL
        /\ reqs[c].att.id \in DOMAIN attachments
        /\ attachments[reqs[c].att.id].checksum_sha256 = NULL
        /\ attachment_path(reqs[c].att) \notin DOMAIN store

\* C7: the first step of a create_attachment whose item_id has no Item row
\* ends the request with 404 "Item not found"; the request has inserted no
\* row and made no call to the store, and the step changes neither the
\* database nor the object store.
C7_UploadMissingItem ==
    [][ \A r \in Requests :
            ( /\ reqs[r].op = "create" /\ reqs[r].pc = "get_item"
              /\ reqs[r].item_id \notin items /\ Steps(r) )
            => /\ reqs'[r].pc = "done"
               /\ reqs'[r].status = 404 /\ reqs'[r].detail = "Item not found"
               /\ reqs'[r].att.id = 0 /\ reqs'[r].storeCalls = 0
               /\ UNCHANGED <<items, nextItemId, attachments, nextAttId, store>> ]_vars

\* a create for an id that is not an item was answered 404
C7_Witness ==
    \E c \in Requests :
        /\ reqs[c].op = "create" /\ reqs[c].pc = "done"
        /\ reqs[c].item_id \notin items
        /\ reqs[c].status = 404 /\ reqs[c].detail = "Item not found"

\* C8: a delete_attachment that found the row, had its blob delete return and
\* committed answers 200 with the confirmation; a delete_attachment that
\* starts after a delete with the same ids has returned 200 answers 404
\* "Attachment not found" and makes no call to the object store.
C8_DoubleDelete ==
    \A d \in Requests :
        Answered(d, "delete")
        => /\ (reqs[d].marked /\ reqs[d].blob \in {"ok", "absent"} /\ reqs[d].committed)
              => /\ reqs[d].status = 200
                 /\ reqs[d].detail = "Attachment deleted successfully"
           /\ reqs[d].status = 200 => ~reqs[d].after200
           /\ reqs[d].after200
              => /\ reqs[d].status = 404 /\ reqs[d].detail = "Attachment not found"
                 /\ reqs[d].storeCalls = 0

\* the attachment was deleted, and deleted again
C8_Witness ==
    \E d1 \in Requests, d2 \in Requests :
        /\ reqs[d1].op = "delete" /\ reqs[d1].status = 200 /\ reqs[d1].blob = "ok"
        /\ Answered(d2, "delete") /\ reqs[d2].after200
        /\ reqs[d2].item_id = reqs[d1].item_id
        /\ reqs[d2].attachment_id = reqs[d1].attachment_id
        /\ reqs[d2].status = 404

\* C9: a get_attachment whose item_id has no Item row ends at its first step
\* with 404 "Item not found", whether the attachment id has a row or not;
\* one whose item exists and whose attachment id has no row ends at its
\* second step with 404 "Attachment not found"; the two messages differ and
\* neither request has called the object store.
C9_DownloadNotFound ==
    [][ \A r \in Requests :
            (reqs[r].op = "get" /\ Steps(r))
            => /\ (reqs[r].pc = "get_item" /\ reqs[r].item_id \notin items)
                  => /\ reqs'[r].pc = "done" /\ reqs'[r].status = 404
                     /\ reqs'[r].detail = "Item not found"
                     /\ reqs'[r].storeCalls = 0 /\ UNCHANGED store
               /\ (reqs[r].pc = "get_attachment"
                        /\ reqs[r].attachment_id \notin DOMAIN attachments)
                  => /\ reqs'[r].pc = "done" /\ reqs'[r].status = 404
                     /\ reqs'[r].detail = "Attachment not found"
                     /\ reqs'[r].detail # "Item not found"
                     /\ reqs[r].sawItem
                     /\ reqs'[r].storeCalls = 0 /\ UNCHANGED store ]_vars

\* both answers: a missing item with an attachment id that has a row, and an
\* item with an attachment id that has none
C9_Witness ==
    \E g \in Requests, h \in Requests :
        /\ Answered(g, "get") /\ reqs[g].item_id \notin items
        /\ reqs[g].attachment_id \in DOMAIN attachments
        /\ reqs[g].status = 404 /\ reqs[g].detail = "Item not found"
        /\ Answered(h, "get") /\ reqs[h].item_id \in items
        /\ reqs[h].status = 404 /\ reqs[h].detail = "Attachment not found"

\* C10: when the store call of a get_attachment finds no blob at the key of
\* the row (and raises nothing else), the request ends with 404 "Attachment
\* not found in object store", which is not the message of a missing row, and
\* the step leaves the database as it is.
C10_MissingBlob ==
    [][ \A r \in Requests :
            ( /\ reqs[r].op = "get" /\ reqs[r].pc = "get_blob" /\ Steps(r)
              /\ attachment_path(reqs[r].att) \notin DOMAIN store
              /\ reqs'[r].blob # "error" )
            => /\ reqs'[r].pc = "done" /\ reqs'[r].status = 404
               /\ reqs'[r].detail = "Attachment not found in object store"
               /\ reqs'[r].detail # "Attachment not found"
               /\ UNCHANGED <<items, nextItemId, attachments, nextAttId>> ]_vars

\* a row whose blob is not in the store was asked for
C10_Witness ==
    \E g \in Requests :
        /\ Answered(g, "get") /\ reqs[g].sawItem
        /\ reqs[g].att.id \in DOMAIN attachments
        /\ attachment_path(reqs[g].att) \notin DOMAIN store
        /\ reqs[g].blob = "absent"
        /\ reqs[g].status = 404
        /\ reqs[g].detail = "Attachment not found in object store"

(***************************************************************************)
(* Uploads and deletions once MaxItems + 1 items have been created, with   *)
(* room for one more attachment, so that two uploads to one item or to two *)
(* items run side by side and an upload follows a deletion.  Every item    *)
(* exists here, so the item a deletion names decides nothing and deletions *)
(* name the first.                                                         *)
(***************************************************************************)
UploadAttIds == 1..(MaxAttachments + 1)

InitUploads ==
    /\ InitRest
    /\ items = ItemIds
    /\ nextItemId = MaxItems + 2
    /\ attachments = NoRows
    /\ nextAttId = 1
    /\ store = NoBlobs
    /\ reqs = <<>>

NextUploads ==
    \/ \E i \in ItemIds, f \in Contents, n \in Filenames, t \in ContentTypes :
            StartCreate(i, f, n, t) /\ UNCHANGED restVars
    \/ \E a \in UploadAttIds : StartDelete(1, a) /\ UNCHANGED restVars
    \/ \E r \in Requests : CreateGetItem(r) /\ UNCHANGED restVars
    \/ \E r \in Requests : CreateInsertUpTo(r, MaxAttachments + 1) /\ UNCHANGED restVars
    \/ \E r \in Requests : CreateRefresh(r) /\ UNCHANGED restVars
    \/ \E r \in Requests : CreateHash(r) /\ UNCHANGED restVars
    \/ \E r \in Requests : CreatePut(r) /\ UNCHANGED restVars
    \/ \E r \in Requests : CreateCommit(r) /\ UNCHANGED restVars
    \/ \E r \in Requests : CreateReturn(r) /\ UNCHANGED restVars
    \/ \E r \in Requests : DeleteGetItem(r) /\ UNCHANGED restVars
    \/ \E r \in Requests : DeleteGetAttachment(r) /\ UNCHANGED restVars
    \/ \E r \in Requests : DeleteMark(r) /\ UNCHANGED restVars
    \/ \E r \in Requests : DeleteBlob(r) /\ UNCHANGED restVars
    \/ \E r \in Requests : DeleteCommit(r) /\ UNCHANGED restVars
    \/ \E r \in Requests : Abort(r) /\ UNCHANGED restVars

SpecUploads == InitUploads /\ [][NextUploads]_vars

(***************************************************************************)
(* One upload, of any file of up to MaxHashLen bytes: shorter than a       *)
(* chunk, a chunk, several chunks, with and without a short last chunk.    *)
(***************************************************************************)
MaxHashLen == 5

HashBytes == {1, 2}

RECURSIVE SeqsUpTo(_, _)
SeqsUpTo(S, n) ==
    IF n = 0 THEN {<<>>}
    ELSE LET shorter == SeqsUpTo(S, n - 1)
         IN  shorter \cup {Append(s, b) : s \in {t \in shorter : Len(t) = n - 1}, b \in S}

HashFiles == SeqsUpTo(HashBytes, MaxHashLen)

InitHash ==
    /\ InitRest
    /\ items = {1}
    /\ nextItemId = 2
    /\ attachments = NoRows
    /\ nextAttId = 1
    /\ store = NoBlobs
    /\ \E f \in HashFiles, n \in Filenames, t \in ContentTypes :
            reqs = <<NewRequest("create", 1, 0, f, n, t)>>

NextHash ==
    \/ \E r \in Requests : CreateGetItem(r) /\ UNCHANGED restVars
    \/ \E r \in Requests : CreateInsert(r) /\ UNCHANGED restVars
    \/ \E r \in Requests : CreateRefresh(r) /\ UNCHANGED restVars
    \/ \E r \in Requests : CreateHash(r) /\ UNCHANGED restVars
    \/ \E r \in Requests : CreatePut(r) /\ UNCHANGED restVars
    \/ \E r \in Requests : CreateCommit(r) /\ UNCHANGED restVars
    \/ \E r \in Requests : CreateReturn(r) /\ UNCHANGED restVars

SpecHash == InitHash /\ [][NextHash]_vars

(***************************************************************************)
(* One upload under any filename of up to MaxNameLen characters, and its   *)
(* downloads.                                                              *)
(***************************************************************************)
HeaderNames == SeqsUpTo(NameChars, MaxNameLen)

HeaderTypes == {"attachment", "inline"}

InitHeader ==
    /\ InitRest
    /\ items = {1}
    /\ nextItemId = 2
    /\ attachments = NoRows
    /\ nextAttId = 1
    /\ store = NoBlobs
    /\ \E n \in HeaderNames, t \in ContentTypes :
            reqs = <<NewRequest("create", 1, 0, FullFile, n, t)>>

NextHeader ==
    \/ StartGet(1, 1) /\ UNCHANGED restVars
    \/ \E r \in Requests : CreateGetItem(r) /\ UNCHANGED restVars
    \/ \E r \in Requests : CreateInsert(r) /\ UNCHANGED restVars
    \/ \E r \in Requests : CreateRefresh(r) /\ UNCHANGED restVars
    \/ \E r \in Requests : CreateHash(r) /\ UNCHANGED restVars
    \/ \E r \in Requests : CreatePut(r) /\ UNCHANGED restVars
    \/ \E r \in Requests : CreateCommit(r) /\ UNCHANGED restVars
    \/ \E r \in Requests : CreateReturn(r) /\ UNCHANGED restVars
    \/ \E r \in Requests : GetGetItem(r) /\ UNCHANGED restVars
    \/ \E r \in Requests : GetGetAttachment(r) /\ UNCHANGED restVars
    \/ \E r \in Requests : GetBlob(r) /\ UNCHANGED restVars

SpecHeader == InitHeader /\ [][NextHeader]_vars

\* C11: a get_attachment or delete_attachment that names an existing item and
\* the attachment of another item returns no bytes and is answered 404 (500
\* at most when the object store itself raised); such a delete_attachment
\* makes no call to the object store and commits no row deletion.
C11_BoundToItem ==
    \A r \in Requests, c \in Requests :
        ( /\ reqs[c].op = "create" /\ reqs[c].att.id # 0
          /\ reqs[r].op \in {"get", "delete"}
          /\ reqs[r].attachment_id = reqs[c].att.id
          /\ reqs[r].item_id # reqs[c].item_id
          /\ reqs[r].item_id \in items )
        => /\ reqs[r].body = <<>>
           /\ Answered(r, reqs[r].op)
                => reqs[r].status = 404 \/ reqs[r].blob = "error"
           /\ reqs[r].op = "delete"
                => reqs[r].storeCalls = 0 /\ ~reqs[r].committed

\* C12: a delete_attachment whose blob delete finds no blob under the key,
\* and is not failed by the store for another reason, goes on to its commit
\* with no response sent; when that commit goes through, the row is gone and
\* the answer is 200 "Attachment deleted successfully".
C12_ToleratedAbsence ==
    [][\A r \in Requests :
          LET q == reqs[r]
              q2 == reqs'[r]
          IN  /\ ( /\ At(r, "delete", "delete_blob")
                   /\ attachment_path(q.att) \notin DOMAIN store
                   /\ q2.pc # "delete_blob"
                   /\ q2.detail # "aborted"
                   /\ q2.blob # "error" )
                 => /\ q2.pc = "commit" /\ q2.status = 0
                    /\ q2.blob = "absent"
                    /\ attachment_path(q.att) \notin DOMAIN store'
              /\ ( /\ At(r, "delete", "commit")
                   /\ q.blob = "absent"
                   /\ q2.committed )
                 => /\ q2.pc = "done" /\ q2.status = 200
                    /\ q2.detail = "Attachment deleted successfully"
                    /\ q.att.id \notin DOMAIN attachments'
    ]_vars

\* a delete found the row, found no blob, and answered 200
C12_Witness ==
    \E r \in Requests :
        /\ Answered(r, "delete") /\ reqs[r].blob = "absent"
        /\ reqs[r].storeCalls = 1 /\ reqs[r].committed
        /\ reqs[r].status = 200
        /\ reqs[r].attachment_id \notin DOMAIN attachments

\* C13: a delete_attachment whose blob delete raises anything but
\* FileNotFoundError ends there with status 500 and commits nothing: the step
\* leaves the table and the store as they were, so the row it had loaded, if
\* still there, stays there for later requests.
C13_BlobDeleteFailure ==
    [][\A r \in Requests :
          LET q == reqs[r]
              q2 == reqs'[r]
          IN  (At(r, "delete", "delete_blob") /\ q2.blob = "error")
              => /\ q2.pc = "done" /\ q2.status = 500
                 /\ ~q2.committed
                 /\ q2.storeCalls = q.storeCalls + 1
                 /\ attachments' = attachments
                 /\ store' = store
    ]_vars

\* a delete was failed by the store with the row and the blob present, and
\* both are still there
C13_Witness ==
    \E r \in Requests :
        /\ Answered(r, "delete") /\ reqs[r].blob = "error"
        /\ reqs[r].status = 500 /\ reqs[r].marked
        /\ reqs[r].att.id \in DOMAIN attachments
        /\ attachment_path(reqs[r].att) \in DOMAIN store

\* the position of a create_attachment in its handler
CreateRank(pc) ==
    CASE pc = "get_item" -> 0
      [] pc = "insert"   -> 1
      [] pc = "refresh"  -> 2
      [] pc = "hash"     -> 3
      [] pc = "put"      -> 4
      [] pc = "commit"   -> 5
      [] pc = "refresh2" -> 6
      [] OTHER           -> 7

\* C14: a create_attachment only moves forward through its steps; a row is
\* added only by the insert step of a create, with id taken there and no
\* checksum, before that request has called the store; a blob is written
\* only by the put step of a create, at the key built from the id its insert
\* committed, before its checksum is committed; a checksum of a row changes
\* only at the commit step of the create that inserted the row, after its one
\* put returned; and a create is answered 200 only after all three.
C14_CreateStepOrder ==
    [][/\ \A r \in Requests :
            reqs[r].op = "create" /\ reqs'[r] # reqs[r]
            => CreateRank(reqs'[r].pc) > CreateRank(reqs[r].pc)
       /\ \A a \in DOMAIN attachments' \ DOMAIN attachments :
            \E r \in Requests :
                /\ At(r, "create", "insert") /\ reqs'[r].pc = "refresh"
                /\ reqs[r].att.id = 0 /\ reqs'[r].att.id = a
                /\ a = nextAttId /\ nextAttId' = a + 1
                /\ attachments'[a].checksum_sha256 = NULL
                /\ reqs[r].storeCalls = 0 /\ reqs[r].blob = "none"
                /\ DOMAIN attachments' = DOMAIN attachments \cup {a}
       /\ \A k \in DOMAIN store' :
            (k \notin DOMAIN store \/ store'[k] # store[k])
            => \E r \in Requests :
                /\ At(r, "create", "put") /\ reqs'[r].pc = "commit"
                /\ reqs[r].att.id \in 1..(nextAttId - 1)
                /\ k = <<"item_", reqs[r].item_id, "/attachments/", reqs[r].att.id>>
                /\ reqs[r].storeCalls = 0 /\ reqs'[r].storeCalls = 1
                /\ ~reqs[r].committed
       /\ \A a \in DOMAIN attachments \cap DOMAIN attachments' :
            attachments'[a] # attachments[a]
            => \E r \in Requests :
                /\ At(r, "create", "commit") /\ reqs'[r].pc = "refresh2"
                /\ reqs[r].att.id = a
                /\ reqs[r].storeCalls = 1 /\ reqs[r].blob = "ok"
                /\ ~reqs[r].committed /\ reqs'[r].committed
       /\ \A r \in Requests :
            reqs[r].op = "create" /\ reqs[r].status # 200 /\ reqs'[r].status = 200
            => /\ reqs[r].pc = "refresh2"
               /\ reqs[r].storeCalls = 1 /\ reqs[r].blob = "ok"
               /\ reqs[r].committed
    ]_vars

\* a create went through its insert, its put and its update and returned 200
C14_Witness ==
    \E r \in Requests :
        /\ Created(r) /\ reqs[r].storeCalls = 1 /\ reqs[r].committed
        /\ reqs[r].att.id \in DOMAIN attachments
        /\ attachments[reqs[r].att.id].checksum_sha256 = Sha256(reqs[r].file)
        /\ attachment_path(reqs[r].att) \in DOMAIN store
        /\ store[attachment_path(reqs[r].att)] = reqs[r].file

\* C15: a row appears with the next id of the sequence and no checksum; once
\* there, its item_id, filename, content type and size never change, and its
\* checksum changes only once, from none to the digest of the file of the
\* request that inserted it; a row disappears only at the commit of a
\* delete_attachment that loaded it; ids only grow, so the id of a deleted
\* row is never given to a row again.
C15_Lifecycle ==
    [][/\ \A a \in DOMAIN attachments' \ DOMAIN attachments :
            /\ a = nextAttId /\ nextAttId' = a + 1
            /\ attachments'[a].checksum_sha256 = NULL
       /\ \A a \in DOMAIN attachments \cap DOMAIN attachments' :
            /\ attachments'[a].item_id = attachments[a].item_id
            /\ attachments'[a].filename = attachments[a].filename
            /\ attachments'[a].content_type = attachments[a].content_type
            /\ attachments'[a].filesize = attachments[a].filesize
            /\ attachments'[a].checksum_sha256 # attachments[a].checksum_sha256
               => /\ attachments[a].checksum_sha256 = NULL
                  /\ \E c \in Requests :
                        /\ reqs[c].op = "create" /\ reqs[c].att.id = a
                        /\ attachments'[a].checksum_sha256 = Sha256(reqs[c].file)
                        /\ Sha256(reqs[c].file) # NULL
       /\ \A a \in DOMAIN attachments \ DOMAIN attachments' :
            \E d \in Requests :
                /\ At(d, "delete", "commit") /\ reqs[d].att.id = a
                /\ reqs'[d].committed
       /\ nextAttId' >= nextAttId
       /\ \A a \in DOMAIN attachments' : a < nextAttId'
    ]_vars

\* attachment 1 was created, checksummed and deleted, and attachment 2 was
\* created and checksummed
C15_Witness ==
    \E c1 \in Requests, d \in Requests, c2 \in Requests :
        /\ Created(c1) /\ reqs[c1].att.id = 1
        /\ reqs[c1].att.checksum_sha256 = Sha256(reqs[c1].file)
        /\ Answered(d, "delete") /\ reqs[d].status = 200 /\ reqs[d].att.id = 1
        /\ reqs[d].att.checksum_sha256 = Sha256(reqs[c1].file)
        /\ 1 \notin DOMAIN attachments
        /\ Created(c2) /\ reqs[c2].att.id = 2
        /\ 2 \in DOMAIN attachments
        /\ attachments[2].checksum_sha256 = Sha256(reqs[c2].file)

\* a delete_attachment has had its blob delete done at the key of c
BlobDeletedAt(c) ==
    \E d \in Requests :
        /\ reqs[d].op = "delete" /\ reqs[d].blob \in {"ok", "absent"}
        /\ attachment_path(reqs[d].att) = attachment_path(reqs[c].att)

\* C16: two create_attachment requests that have both inserted their row have
\* different ids and different storage keys; the key of each, while it holds
\* a blob, holds the bytes of that request, and holds them once its put
\* returned unless a delete removed them; the checksum of each row, once
\* set, and the one each request returns, is the digest of that request's
\* own bytes.
C16_UploadsDoNotContend ==
    \A c1 \in Requests, c2 \in Requests :
        ( /\ c1 # c2
          /\ reqs[c1].op = "create" /\ reqs[c1].att.id # 0
          /\ reqs[c2].op = "create" /\ reqs[c2].att.id # 0 )
        => LET q == reqs[c1]
               path == attachment_path(q.att)
           IN  /\ q.att.id # reqs[c2].att.id
               /\ path # attachment_path(reqs[c2].att)
               /\ path \in DOMAIN store => store[path] = q.file
               /\ (q.blob = "ok" /\ ~BlobDeletedAt(c1)) => path \in DOMAIN store
               /\ q.att.id \in DOMAIN attachments
                    => /\ attachments[q.att.id].item_id = q.item_id
                       /\ attachments[q.att.id].filesize = Len(q.file)
                       /\ attachments[q.att.id].checksum_sha256
                            \in {NULL, Sha256(q.file)}
                       /\ q.committed
                            => attachments[q.att.id].checksum_sha256 = Sha256(q.file)
               /\ q.status = 200 => q.att.checksum_sha256 = Sha256(q.file)

\* two uploads of different bytes have both returned 200 and both blobs and
\* rows are there
C16_Witness ==
    \E c1 \in Requests, c2 \in Requests :
        /\ Created(c1) /\ Created(c2) /\ c1 # c2
        /\ reqs[c1].file # reqs[c2].file
        /\ Sha256(reqs[c1].file) # Sha256(reqs[c2].file)
        /\ reqs[c1].att.id \in DOMAIN attachments
        /\ reqs[c2].att.id \in DOMAIN attachments
        /\ attachment_path(reqs[c1].att) \in DOMAIN store
        /\ attachment_path(reqs[c2].att) \in DOMAIN store
        /\ store[attachment_path(reqs[c1].att)] = reqs[c1].file
        /\ store[attachment_path(reqs[c2].att)] = reqs[c2].file

\* the key item_{item_id}/attachments/{id} of the row a request has loaded
RowKey(q) == <<"item_", q.att.item_id, "/attachments/", q.att.id>>

\* C17: the call to the object store of each handler acts on the key
\* item_{item_id}/attachments/{id} of the row it has loaded and on no other:
\* the put of create_attachment writes that key alone, the read of
\* get_attachment finds a blob exactly when that key holds one and returns
\* its bytes, and the blob delete of delete_attachment removes that key
\* alone; this also when the item id of the request path is not the row's.
C17_OneKeyPerAttachment ==
    [][\A r \in Requests :
          LET q == reqs[r]
              q2 == reqs'[r]
              key == RowKey(q)
          IN  /\ (At(r, "create", "put") /\ q2.blob = "ok")
                 => /\ DOMAIN store' = DOMAIN store \cup {key}
                    /\ \A k \in DOMAIN store \ {key} : store'[k] = store[k]
              /\ (At(r, "get", "get_blob") /\ q2.blob \in {"ok", "absent"})
                 => /\ q2.blob = "ok" <=> key \in DOMAIN store
                    /\ q2.blob = "ok" => q2.body = store[key]
                    /\ store' = store
              /\ (At(r, "delete", "delete_blob") /\ q2.blob \in {"ok", "absent"})
                 => /\ q2.blob = "ok" <=> key \in DOMAIN store
                    /\ store' = Without(store, key)
    ]_vars

\* the attachment of item 1 was uploaded, downloaded, and its blob deleted by
\* a request that named another item
C17_Witness ==
    \E c \in Requests, g \in Requests, d \in Requests :
        /\ Created(c) /\ reqs[c].item_id = 1
        /\ Answered(g, "get") /\ reqs[g].status = 200
        /\ reqs[g].att.id = reqs[c].att.id /\ reqs[g].body = reqs[c].file
        /\ reqs[d].op = "delete" /\ reqs[d].blob = "ok"
        /\ reqs[d].att.id = reqs[c].att.id
        /\ reqs[d].item_id # reqs[d].att.item_id
        /\ RowKey(reqs[c]) \notin DOMAIN store

\* the create_attachment requests that have inserted a row
Inserted == {c \in Requests : reqs[c].op = "create" /\ reqs[c].att.id # 0}

\* C18: every id given to a row so far is below the next id of the sequence
\* and was given once: no two inserts, of rows live or deleted, got the same
\* id or build the same key; every row and every blob, orphaned ones
\* included, belongs to exactly one insert, and a blob holds the bytes of
\* that one.
C18_NoKeyCollisions ==
    /\ \A c \in Inserted : reqs[c].att.id \in 1..(nextAttId - 1)
    /\ \A c1 \in Inserted, c2 \in Inserted :
            c1 # c2 => /\ reqs[c1].att.id # reqs[c2].att.id
                       /\ RowKey(reqs[c1]) # RowKey(reqs[c2])
    /\ \A a \in DOMAIN attachments :
            Cardinality({c \in Inserted : reqs[c].att.id = a}) = 1
    /\ \A k \in DOMAIN store :
            /\ Cardinality({c \in Inserted : attachment_path(reqs[c].att) = k}) = 1
            /\ \A c \in Inserted :
                    attachment_path(reqs[c].att) = k => store[k] = reqs[c].file

\* attachment 1 was deleted and left an orphaned blob behind, and the next
\* upload got id 2 and its own key
C18_Witness ==
    \E c1 \in Inserted, c2 \in Inserted, d \in Requests :
        /\ reqs[c1].att.id = 1 /\ 1 \notin DOMAIN attachments
        /\ attachment_path(reqs[c1].att) \in DOMAIN store
        /\ reqs[d].op = "delete" /\ reqs[d].status = 200 /\ reqs[d].att.id = 1
        /\ Created(c2) /\ reqs[c2].att.id = 2
        /\ reqs[c2].item_id = reqs[c1].item_id
        /\ attachment_path(reqs[c2].att) \in DOMAIN store
        /\ attachment_path(reqs[c2].att) # attachment_path(reqs[c1].att)

\* C19: for every file, the hashing loop ends at the end of the file with
\* the digest of the whole file; the handler arrives at its put with the
\* stream at offset 0 and that digest as checksum, the put stores the whole
\* file, and the checksum committed and returned is the digest of the stored
\* bytes.
C19_ChunkedDigest ==
    \A r \in Requests :
        LET q == reqs[r]
            end == HashLoop(q.file, 0, Sha256Init)
        IN  q.op = "create"
            => /\ end.pos = Len(q.file)
               /\ HexDigest(end.h) = Sha256(q.file)
               /\ q.pc = "put"
                    => q.pos = 0 /\ q.att.checksum_sha256 = Sha256(q.file)
               /\ q.blob = "ok"
                    => /\ RowKey(q) \in DOMAIN store
                       /\ store[RowKey(q)] = q.file
                       /\ q.att.checksum_sha256 = Sha256(store[RowKey(q)])
               /\ q.committed
                    => attachments[q.att.id].checksum_sha256 = Sha256(q.file)
               /\ q.status = 200
                    => q.att.checksum_sha256 = Sha256(store[RowKey(q)])

\* a file of several chunks and a short last chunk was hashed, stored and
\* answered 200
C19_Witness ==
    \E r \in Requests :
        /\ Created(r)
        /\ Len(reqs[r].file) > HashChunkSize
        /\ Len(reqs[r].file) % HashChunkSize # 0
        /\ store[RowKey(reqs[r])] = reqs[r].file
        /\ attachments[reqs[r].att.id].checksum_sha256 = Sha256(reqs[r].file)

HasNonAscii(filename) == \E i \in 1..Len(filename) : ~IsAscii(filename[i])

\* the header the claim describes for a filename and a disposition type
ClaimedHeader(filename, type) ==
    LET plain == <<type, "; filename=\"">>
                    \o encode_ascii_ignore(normalize(filename)) \o <<"\"">>
    IN  IF HasNonAscii(filename)
        THEN plain \o <<"; filename*=UTF-8''">> \o quote(filename)
        ELSE plain

\* C20: for every filename and type, content_disposition_header gives the
\* type, then filename= with the ASCII-folded name, which has only ASCII
\* characters, and then filename*= with the percent-encoded original exactly
\* when the filename has a character that is not ASCII; a filename of ASCII
\* characters alone is given unchanged and with no second parameter.  The
\* Content-Disposition of a download is that header for the filename the
\* attachment was uploaded with.
C20_ContentDisposition ==
    /\ \A n \in HeaderNames, t \in HeaderTypes :
            LET h == content_disposition_header(n, t)
                folded == encode_ascii_ignore(normalize(n))
            IN  /\ h = ClaimedHeader(n, t)
                /\ \A i \in 1..Len(folded) : IsAscii(folded[i])
                /\ ~HasNonAscii(n)
                     => /\ folded = n
                        /\ h = <<t, "; filename=\"">> \o n \o <<"\"">>
                /\ HasNonAscii(n) => Len(h) > Len(folded) + 4
    /\ \A g \in Requests :
            reqs[g].op = "get" /\ reqs[g].status = 200
            => \E c \in Requests :
                    /\ reqs[c].op = "create" /\ reqs[c].att.id = reqs[g].att.id
                    /\ reqs[g].disposition = ClaimedHeader(reqs[c].filename, "attachment")

\* a download of an attachment whose filename has an ASCII character and one
\* that NFKD folds to ASCII carried both parameters
C20_Witness ==
    \E g \in Requests :
        /\ Answered(g, "get") /\ reqs[g].status = 200
        /\ reqs[g].att.filename = <<"a", "U+00E9">>
        /\ reqs[g].disposition =
                <<"attachment", "; filename=\"", "a", "e", "\"",
                  "; filename*=UTF-8''", "a", "%C3", "%A9">>

(***************************************************************************)
(* The dependencies of a handler of the API (src/backend/app/api/deps.py): *)
(* get_token_payload, then get_current_user, which looks the User up by    *)
(* the email of the token and inserts it when there is none.  The handler  *)
(* is called with their results, so its first step comes after them.       *)
(***************************************************************************)
AuthHeaders ==
    { NoAuthorization,
      [scheme |-> "Bearer", token |-> GoodToken("a@x")],
      [scheme |-> "bearer", token |-> [GoodToken("a@x") EXCEPT !.kid = ""]],
      [scheme |-> "Bearer", token |-> [GoodToken("a@x") EXCEPT !.signed_by = "other"]] }

\* a request arrives with its Authorization header; nothing is resolved yet
AuthStart(authorization, op, item_id, attachment_id, file, filename, content_type) ==
    /\ Len(reqs) < MaxRequests
    /\ reqs' = Append(reqs,
            [NewRequest(op, item_id, attachment_id, file, filename, content_type)
                EXCEPT !.pc = "token", !.authorization = authorization])
    /\ UNCHANGED <<items, nextItemId, attachments, nextAttId, store, users>>

\* GetTokenPayload that lets a request without a valid token through as
\* nobody
GetTokenPayload_Anonymous(r) ==
    /\ r \in Requests /\ reqs[r].pc = "token"
    /\ LET q == reqs[r]
           res == get_token_payload(q.authorization)
       IN  Set(r, [q EXCEPT !.pc = IF res.status = 200 THEN "user" ELSE "get_item",
                            !.email = res.email])
    /\ UNCHANGED <<items, nextItemId, attachments, nextAttId, store, users>>

\* token: TokenDep
GetTokenPayload(r) ==
    /\ r \in Requests /\ reqs[r].pc = "token"
    /\ LET q == reqs[r]
           res == get_token_payload(q.authorization)
       IN  IF res.status = 200
           THEN Set(r, [q EXCEPT !.pc = "user", !.email = res.email])
           ELSE Set(r, Respond(q, res.status, res.detail))
    /\ UNCHANGED <<items, nextItemId, attachments, nextAttId, store, users>>

\* the ids of the User rows with an email
UsersWithEmail(email) == {u \in DOMAIN users : users[u].email = email}

\* result = await session.exec(select(User).where(User.email == token.email));
\* user = result.one(): NoResultFound leads to the insert, MultipleResultsFound
\* is not caught
GetCurrentUser(r) ==
    /\ r \in Requests /\ reqs[r].pc = "user"
    /\ LET q == reqs[r]
           found == UsersWithEmail(q.email)
       IN  CASE found = {} -> Set(r, [q EXCEPT !.pc = "user_insert"])
             [] Cardinality(found) = 1 ->
                    Set(r, [q EXCEPT !.pc = "get_item", !.user = CHOOSE u \in found : TRUE])
             [] OTHER -> Set(r, Respond(q, 500, "Internal Server Error"))
    /\ UNCHANGED <<items, nextItemId, attachments, nextAttId, store, users>>

\* session.add(user_create); await session.commit(); the email column has no
\* unique constraint, so the INSERT goes through whatever rows there are
CreateUser(r) ==
    /\ r \in Requests /\ reqs[r].pc = "user_insert"
    /\ users' = Append(users, [email |-> reqs[r].email])
    /\ Set(r, [reqs[r] EXCEPT !.pc = "get_item", !.user = Len(users) + 1])
    /\ UNCHANGED <<items, nextItemId, attachments, nextAttId, store>>

authRest == <<itemRows, tags, links, sessions, now, calls>>

NextAuth ==
    \/ create_item /\ UNCHANGED restVars
    \/ \E h \in AuthHeaders, n \in Filenames, t \in ContentTypes :
            AuthStart(h, "create", 1, 0, FullFile, n, t) /\ UNCHANGED authRest
    \/ \E h \in AuthHeaders :
            AuthStart(h, "get", 1, 1, <<>>, <<>>, "") /\ UNCHANGED authRest
    \/ \E h \in AuthHeaders :
            AuthStart(h, "delete", 1, 1, <<>>, <<>>, "") /\ UNCHANGED authRest
    \/ \E r \in Requests : GetTokenPayload(r) /\ UNCHANGED authRest
    \/ \E r \in Requests : GetCurrentUser(r) /\ UNCHANGED authRest
    \/ \E r \in Requests : CreateUser(r) /\ UNCHANGED authRest
    \/ \E r \in Requests : CreateGetItem(r) /\ UNCHANGED restVars
    \/ \E r \in Requests : CreateInsert(r) /\ UNCHANGED restVars
    \/ \E r \in Requests : CreateRefresh(r) /\ UNCHANGED restVars
    \/ \E r \in Requests : CreateHash(r) /\ UNCHANGED restVars
    \/ \E r \in Requests : CreatePut(r) /\ UNCHANGED restVars
    \/ \E r \in Requests : CreateCommit(r) /\ UNCHANGED restVars
    \/ \E r \in Requests : CreateReturn(r) /\ UNCHANGED restVars
    \/ \E r \in Requests : GetGetItem(r) /\ UNCHANGED restVars
    \/ \E r \in Requests : GetGetAttachment(r) /\ UNCHANGED restVars
    \/ \E r \in Requests : GetBlob(r) /\ UNCHANGED restVars
    \/ \E r \in Requests : DeleteGetItem(r) /\ UNCHANGED restVars
    \/ \E r \in Requests : DeleteGetAttachment(r) /\ UNCHANGED restVars
    \/ \E r \in Requests : DeleteMark(r) /\ UNCHANGED restVars
    \/ \E r \in Requests : DeleteBlob(r) /\ UNCHANGED restVars
    \/ \E r \in Requests : DeleteCommit(r) /\ UNCHANGED restVars

SpecAuth == Init /\ [][NextAuth]_vars

\* the header carries a bearer token that is a JWT of a key of the key set,
\* signed by it, of the issuer, not expired, with exp, iat and sub
ValidBearer(authorization) ==
    LET t == authorization.token
    IN  /\ authorization.scheme \in {"Bearer", "bearer"}
        /\ t.segments /\ t.kid \in Jwks /\ t.signed_by = t.kid
        /\ t.has_exp /\ t.has_iat /\ ~t.expired
        /\ t.iss = Issuer /\ t.has_sub

\* C21: a request is in a step of its handler, has seen an item or a row,
\* has called the object store or has been answered 200 or 404 only with a
\* valid bearer token and the User row of that token's email resolved; every
\* step of a request without a valid bearer token leaves the tables and the
\* object store as they were and ends the request with an error status.
C21_AuthenticationFirst ==
    [][\A r \in Requests :
          LET q == reqs[r]
              q2 == reqs'[r]
          IN  /\ ( \/ q2.pc \notin {"token", "user", "user_insert", "done"}
                   \/ q2.sawItem \/ q2.att.id # 0 \/ q2.storeCalls > 0
                   \/ q2.status \in {200, 404} )
                 => /\ ValidBearer(q.authorization)
                    /\ q2.user \in DOMAIN users'
                    /\ users'[q2.user].email = q.authorization.token.email
              /\ (~ValidBearer(q.authorization) /\ q2 # q)
                 => /\ q2.pc = "done" /\ q2.status \in {401, 403, 500}
                    /\ q2.storeCalls = 0 /\ ~q2.committed
                    /\ UNCHANGED <<items, nextItemId, attachments, nextAttId, store, users>>
    ]_vars

\* with an attachment stored, a request without a token and one with a badly
\* signed token were turned away, and row and blob are still there
C21_Witness ==
    \E c \in Requests, r1 \in Requests, r2 \in Requests :
        /\ Created(c) /\ reqs[c].user \in DOMAIN users
        /\ reqs[r1].op = "delete" /\ reqs[r1].authorization = NoAuthorization
        /\ reqs[r1].pc = "done" /\ reqs[r1].status = 401
        /\ reqs[r2].op = "delete" /\ reqs[r2].authorization.scheme = "Bearer"
        /\ reqs[r2].pc = "done" /\ reqs[r2].status = 403
        /\ reqs[c].att.id \in DOMAIN attachments
        /\ RowKey(reqs[c]) \in DOMAIN store

(***************************************************************************)
(* The item routes (src/backend/app/api/routes/items.py).  An Item row has *)
(* the columns that the tests of the routes read; title and item_type      *)
(* stand for the columns of the body of an update.  A call loads the row   *)
(* with session.get and commits in a later step, so calls interleave.      *)
(***************************************************************************)
MaxCalls == 3
MaxNow == 1

ItemFields == {"title", "item_type"}

CreatedItem == [title |-> "t", item_type |-> "book", updated_at |-> 0]
NoItemRow == [title |-> "", item_type |-> "", updated_at |-> 0]

\* the bodies of update_item: each field is unset or set to a value
ItemUpdates ==
    { [f \in S |-> IF f = "title" THEN t ELSE "movie"] :
        S \in SUBSET ItemFields, t \in {"t", "Updated title"} }

NewCall(op, item_id, body) ==
    [op |-> op, pc |-> "get", item_id |-> item_id, body |-> body,
     item |-> NoItemRow, status |-> 0, detail |-> ""]

Calls == DOMAIN calls

SetCall(c, rec) == calls' = [calls EXCEPT ![c] = rec]

Answer(q, status, detail) ==
    [q EXCEPT !.pc = "done", !.status = status, !.detail = detail]

\* create_item: session.add(item); await session.commit()
ItemCreate ==
    /\ nextItemId <= MaxItems + 1
    /\ items' = items \cup {nextItemId}
    /\ itemRows' = [x \in DOMAIN itemRows \cup {nextItemId} |->
                        IF x = nextItemId THEN CreatedItem ELSE itemRows[x]]
    /\ nextItemId' = nextItemId + 1
    /\ UNCHANGED <<now, calls>>

\* a request to get_item, update_item or delete_item arrives
ItemStart(op, item_id, body) ==
    /\ Len(calls) < MaxCalls
    /\ calls' = Append(calls, NewCall(op, item_id, body))
    /\ UNCHANGED <<items, nextItemId, itemRows, now>>

\* time passes
TickUpTo(cap) ==
    /\ now < cap
    /\ now' = now + 1
    /\ UNCHANGED <<items, nextItemId, itemRows, calls>>

Tick == TickUpTo(MaxNow)

\* ItemLoad that goes on with an empty item when there is no row
ItemLoad_NoCheck(c) ==
    /\ c \in Calls /\ calls[c].pc = "get"
    /\ LET q == calls[c]
           row == IF q.item_id \in DOMAIN itemRows THEN itemRows[q.item_id] ELSE NoItemRow
       IN  IF q.op = "get_item"
           THEN SetCall(c, [Answer(q, 200, "") EXCEPT !.item = row])
           ELSE SetCall(c, [q EXCEPT !.pc = "commit", !.item = row])
    /\ UNCHANGED <<items, nextItemId, itemRows, now>>

\* item = await session.get(Item, item_id); if not item: raise
\* HTTPException(status_code=404, detail="Item not found"); get_item
\* returns the item
ItemLoad(c) ==
    /\ c \in Calls /\ calls[c].pc = "get"
    /\ LET q == calls[c]
       IN  IF q.item_id \notin DOMAIN itemRows
           THEN SetCall(c, Answer(q, 404, "Item not found"))
           ELSE IF q.op = "get_item"
                THEN SetCall(c, [Answer(q, 200, "") EXCEPT !.item = itemRows[q.item_id]])
                ELSE SetCall(c, [q EXCEPT !.pc = "commit", !.item = itemRows[q.item_id]])
    /\ UNCHANGED <<items, nextItemId, itemRows, now>>

\* item.sqlmodel_update(update_dict); item.updated_at = datetime.now(): the
\* object after the assignments
sqlmodel_update(item, body, at) ==
    [f \in DOMAIN item |->
        IF f \in DOMAIN body THEN body[f]
        ELSE IF f = "updated_at" THEN at ELSE item[f]]

\* the columns of the UPDATE that the commit emits: the attributes whose
\* value is not the loaded one
Dirty(item, obj) == {f \in DOMAIN item : obj[f] # item[f]}

\* UpdateCommit that writes every column of the object it holds
UpdateCommit_WholeRow(c) ==
    /\ c \in Calls /\ calls[c].pc = "commit" /\ calls[c].op = "update_item"
    /\ LET q == calls[c]
           obj == sqlmodel_update(q.item, q.body, now)
       IN  IF q.item_id \in DOMAIN itemRows
           THEN /\ itemRows' = [itemRows EXCEPT ![q.item_id] = obj]
                /\ SetCall(c, [Answer(q, 200, "") EXCEPT !.item = obj])
           ELSE /\ SetCall(c, Answer(q, 500, "Internal Server Error"))
                /\ UNCHANGED itemRows
    /\ UNCHANGED <<items, nextItemId, now>>

\* session.add(item); await session.commit(); await session.refresh(item):
\* UPDATE item SET <the dirty columns> WHERE id = item_id; a row that is
\* gone makes the flush raise StaleDataError
UpdateCommit(c) ==
    /\ c \in Calls /\ calls[c].pc = "commit" /\ calls[c].op = "update_item"
    /\ LET q == calls[c]
           obj == sqlmodel_update(q.item, q.body, now)
           row == itemRows[q.item_id]
           written == [f \in DOMAIN row |->
                          IF f \in Dirty(q.item, obj) THEN obj[f] ELSE row[f]]
       IN  IF q.item_id \in DOMAIN itemRows
           THEN /\ itemRows' = [itemRows EXCEPT ![q.item_id] = written]
                /\ SetCall(c, [Answer(q, 200, "") EXCEPT !.item = written])
           ELSE /\ SetCall(c, Answer(q, 500, "Internal Server Error"))
                /\ UNCHANGED itemRows
    /\ UNCHANGED <<items, nextItemId, now>>

\* the ids of the Attachment rows of an item
AttachmentsOf(item_id) ==
    {a \in DOMAIN attachments : attachments[a].item_id = item_id}

\* await session.delete(item); await session.commit(): DELETE FROM item
\* WHERE id = item_id; a row that is gone is a warning only.  The rows of
\* ItemTagLink of the item go with it.  What the flush does with the
\* Attachment rows of the item is set by Item.attachments: either they are
\* deleted with the item, or the flush fails on attachment.item_id and
\* nothing is deleted.  The handler makes no call to the object store.
ItemDeleteCommit(c) ==
    /\ c \in Calls /\ calls[c].pc = "commit" /\ calls[c].op = "delete_item"
    /\ LET q == calls[c]
       IN  \/ /\ itemRows' = [x \in DOMAIN itemRows \ {q.item_id} |-> itemRows[x]]
              /\ items' = items \ {q.item_id}
              /\ attachments' = [a \in DOMAIN attachments \ AttachmentsOf(q.item_id) |->
                                    attachments[a]]
              /\ links' = SelectSeq(links, LAMBDA l : l[1] # q.item_id)
              /\ SetCall(c, Answer(q, 200, "Item deleted successfully"))
           \/ /\ AttachmentsOf(q.item_id) # {}
              /\ SetCall(c, Answer(q, 500, "Internal Server Error"))
              /\ UNCHANGED <<itemRows, items, attachments, links>>
    /\ UNCHANGED <<nextItemId, now>>

itemsRest == <<attachments, nextAttId, store, reqs, tags, links, users, sessions>>

NextItems ==
    \/ ItemCreate /\ UNCHANGED itemsRest
    \/ \E i \in ItemIds : ItemStart("get_item", i, <<>>) /\ UNCHANGED itemsRest
    \/ \E i \in ItemIds, b \in ItemUpdates :
            ItemStart("update_item", i, b) /\ UNCHANGED itemsRest
    \/ \E i \in ItemIds : ItemStart("delete_item", i, <<>>) /\ UNCHANGED itemsRest
    \/ Tick /\ UNCHANGED itemsRest
    \/ \E c \in Calls : ItemLoad(c) /\ UNCHANGED itemsRest
    \/ \E c \in Calls : UpdateCommit(c) /\ UNCHANGED itemsRest
    \/ \E c \in Calls : ItemDeleteCommit(c)
            /\ UNCHANGED <<nextAttId, store, reqs, tags, users, sessions>>

SpecItems == Init /\ [][NextItems]_vars

\* C22: the commit of an update_item with status 200 leaves the set of Item
\* rows, every other row and every field of the addressed row that is
\* neither in the body nor updated_at as they were in the database just
\* before it; a field of the body that it changes gets the value of the
\* body, and updated_at gets the time of the call.
C22_PartialUpdateFramed ==
    [][\A c \in Calls :
          (calls[c].op = "update_item" /\ calls[c].pc = "commit" /\ calls'[c].status = 200)
          => LET q == calls[c]
             IN  /\ DOMAIN itemRows' = DOMAIN itemRows
                 /\ \A i \in DOMAIN itemRows \ {q.item_id} : itemRows'[i] = itemRows[i]
                 /\ \A f \in ItemFields \ DOMAIN q.body :
                        itemRows'[q.item_id][f] = itemRows[q.item_id][f]
                 /\ \A f \in DOMAIN q.body :
                        itemRows'[q.item_id][f] \in {q.body[f], itemRows[q.item_id][f]}
                 /\ itemRows'[q.item_id].updated_at = now
                 /\ calls'[c].item = itemRows'[q.item_id]
    ]_vars

\* two updates of item 1 that were both in flight, one of the title and one
\* of the item type, have both been committed, and item 2 is as created
C22_Witness ==
    \E c \in Calls, d \in Calls :
        /\ calls[c].op = "update_item" /\ calls[c].status = 200
        /\ calls[d].op = "update_item" /\ calls[d].status = 200
        /\ DOMAIN calls[c].body = {"title"} /\ DOMAIN calls[d].body = {"item_type"}
        /\ calls[c].item_id = 1 /\ calls[d].item_id = 1
        /\ calls[c].item.item_type = "book" /\ calls[d].item.title = "Updated title"
        /\ 2 \in DOMAIN itemRows /\ itemRows[2] = CreatedItem
        /\ itemRows[1].title = "Updated title" /\ itemRows[1].item_type = "movie"

\* C23: the step in which get_item, update_item or delete_item looks for an
\* Item row that does not exist answers 404 "Item not found" and changes no
\* table, and a call answered 404 has "Item not found" as its detail.
C23_ItemNotFound ==
    [][\A c \in Calls :
          (calls[c].pc = "get" /\ calls'[c] # calls[c]
              /\ calls[c].item_id \notin DOMAIN itemRows)
          => /\ calls'[c].pc = "done"
             /\ calls'[c].status = 404 /\ calls'[c].detail = "Item not found"
             /\ UNCHANGED <<items, nextItemId, itemRows, attachments, nextAttId,
                            tags, links, users, sessions>>
    ]_vars

\* each of the three operations has been answered 404 for an id without a
\* row, one of them for the id of a row that was deleted before
C23_Witness ==
    /\ \E c \in Calls : calls[c].op = "delete_item" /\ calls[c].status = 200
    /\ \E c \in Calls : calls[c].op = "update_item" /\ calls[c].status = 404
    /\ \E c \in Calls : calls[c].op = "get_item" /\ calls[c].status = 404
            /\ calls[c].item_id < nextItemId

(***************************************************************************)
(* The login flow of the frontend (src/app/frontend/main.py and deps.py):  *)
(* /login commits a Session row and sends its token in a cookie and its    *)
(* auth_state to the provider, /auth binds a user to the session of the    *)
(* posted state, /logout stamps the session of the cookie, and a page      *)
(* resolves the user of the session of the cookie.  A token stands for its *)
(* row's auth_state as well.  The clock counts lifetimes of a cookie.      *)
(***************************************************************************)
MaxSessions == 2
CookieMaxAge == 1

NoCookie == NULL
Unknown == 0
NoSession == 0

NoSessionRow == [expires_at |-> NULL, logged_out_at |-> NULL, user_id |-> NULL]

\* the values a client can send: the token or state of a row that /login
\* made and sent out, or a value that belongs to no row
Presentable == {t \in DOMAIN sessions : sessions[t].expires_at # NULL} \cup {Unknown}

NewSessionCall(op, cookie, state, email) ==
    [op |-> op, pc |-> IF op = "auth" THEN "state" ELSE "session",
     cookie |-> cookie, state |-> state, email |-> email,
     session |-> NoSession, row |-> NoSessionRow, user |-> NULL,
     status |-> 0, detail |-> "", cookie_cleared |-> FALSE]

\* Session.is_active
is_active(row, at) ==
    IF row.expires_at < at THEN FALSE
    ELSE IF row.logged_out_at # NULL THEN FALSE
    ELSE TRUE

\* get_session that does not look at logged_out_at
get_session_IgnoreLogout(cookie, rows, at) ==
    IF cookie = NoCookie THEN NoSession
    ELSE IF cookie \notin DOMAIN rows THEN NoSession
    ELSE IF rows[cookie].expires_at < at THEN NoSession
    ELSE cookie

\* get_session: the token of the session it returns, or NoSession for False
get_session(cookie, rows, at) ==
    IF cookie = NoCookie THEN NoSession
    ELSE IF cookie \notin DOMAIN rows THEN NoSession
    ELSE IF rows[cookie].expires_at < at THEN NoSession
    ELSE IF rows[cookie].logged_out_at # NULL THEN NoSession
    ELSE cookie

\* login: session = Session(expires_at=now + max_age); db.add(session);
\* await db.commit(); the response carries the token
login ==
    /\ Cardinality(DOMAIN sessions) < MaxSessions
    /\ LET t == Cardinality(DOMAIN sessions) + 1
       IN  sessions' = [x \in DOMAIN sessions \cup {t} |->
                IF x = t THEN [NoSessionRow EXCEPT !.expires_at = now + CookieMaxAge]
                ELSE sessions[x]]
    /\ UNCHANGED <<users, now, calls>>

\* a request to /auth, /logout or a page arrives
SessionStart(op, cookie, state, email) ==
    /\ Len(calls) < MaxCalls
    /\ cookie \in Presentable \cup {NoCookie}
    /\ state \in Presentable
    /\ calls' = Append(calls, NewSessionCall(op, cookie, state, email))
    /\ UNCHANGED <<sessions, users, now>>

SessionTick ==
    /\ TickUpTo(MaxNow + CookieMaxAge)
    /\ UNCHANGED <<sessions, users>>

\* GetSessionFromState that takes a session that is not active
GetSessionFromState_NotActive(c) ==
    /\ c \in Calls /\ calls[c].pc = "state"
    /\ LET q == calls[c]
       IN  IF q.state \notin DOMAIN sessions
           THEN SetCall(c, [q EXCEPT !.pc = "token"])
           ELSE SetCall(c, [q EXCEPT !.pc = "token", !.session = q.state,
                                     !.row = sessions[q.state]])
    /\ UNCHANGED <<sessions, users, now>>

\* get_session_from_state: no row has the state: return Session(); the row
\* is not active: 401
GetSessionFromState(c) ==
    /\ c \in Calls /\ calls[c].pc = "state"
    /\ LET q == calls[c]
       IN  IF q.state \notin DOMAIN sessions
           THEN SetCall(c, [q EXCEPT !.pc = "token"])
           ELSE IF ~is_active(sessions[q.state], now)
                THEN SetCall(c, Answer(q, 401, "Session is not active"))
                ELSE SetCall(c, [q EXCEPT !.pc = "token", !.session = q.state,
                                          !.row = sessions[q.state]])
    /\ UNCHANGED <<sessions, users, now>>

\* the exchange of the code and oidc_provider.decode_token(id_token,
\* nonce=session.auth_nonce): either gives the userinfo or raises, which
\* the handler answers with 500.  The id token of a code carries the nonce
\* of the session whose /login started the flow; what decode_token does
\* with a nonce that is not that one, the nonce of the new Session() of an
\* unknown state, is either of the two as well.
DecodeToken(c) ==
    /\ c \in Calls /\ calls[c].pc = "token"
    /\ \/ SetCall(c, [calls[c] EXCEPT !.pc = "user"])
       \/ SetCall(c, Answer(calls[c], 500, "Failed to fetch id token from provider."))
    /\ UNCHANGED <<sessions, users, now>>

\* result = await db.exec(select(User).where(User.email == userinfo["email"]));
\* user = result.one()
AuthGetUser(c) ==
    /\ c \in Calls /\ calls[c].pc = "user"
    /\ LET q == calls[c]
           found == UsersWithEmail(q.email)
       IN  CASE found = {} -> SetCall(c, [q EXCEPT !.pc = "user_insert"])
             [] Cardinality(found) = 1 ->
                    SetCall(c, [q EXCEPT !.pc = "bind", !.user = CHOOSE u \in found : TRUE])
             [] OTHER -> SetCall(c, Answer(q, 500, "Internal Server Error"))
    /\ UNCHANGED <<sessions, users, now>>

\* db.add(user_create); await db.commit()
AuthCreateUser(c) ==
    /\ c \in Calls /\ calls[c].pc = "user_insert"
    /\ users' = Append(users, [email |-> calls[c].email])
    /\ SetCall(c, [calls[c] EXCEPT !.pc = "bind", !.user = Len(users) + 1])
    /\ UNCHANGED <<sessions, now>>

\* session.user_id = user.id; db.add(session); await db.commit(): an UPDATE
\* of user_id for a session that was loaded, an INSERT for a new Session()
AuthBind(c) ==
    /\ c \in Calls /\ calls[c].pc = "bind"
    /\ LET q == calls[c]
           t == Cardinality(DOMAIN sessions) + 1
       IN  IF q.session # NoSession
           THEN sessions' = [sessions EXCEPT ![q.session].user_id = q.user]
           ELSE /\ t <= MaxSessions
                /\ sessions' = [x \in DOMAIN sessions \cup {t} |->
                        IF x = t THEN [NoSessionRow EXCEPT !.user_id = q.user]
                        ELSE sessions[x]]
    /\ SetCall(c, Answer(calls[c], 303, ""))
    /\ UNCHANGED <<users, now>>

\* session: SessionDep of /logout and of a page; a page without a session
\* is answered 401 by get_current_user, /logout without one deletes the
\* cookie and redirects
GetSession(c) ==
    /\ c \in Calls /\ calls[c].pc = "session"
    /\ LET q == calls[c]
           s == get_session(q.cookie, sessions, now)
       IN  IF s # NoSession
           THEN SetCall(c, [q EXCEPT !.pc = IF q.op = "logout" THEN "logout" ELSE "current_user",
                                     !.session = s, !.row = sessions[s]])
           ELSE IF q.op = "logout"
                THEN SetCall(c, [Answer(q, 307, "") EXCEPT !.cookie_cleared = TRUE])
                ELSE SetCall(c, Answer(q, 401, "Not authenticated"))
    /\ UNCHANGED <<sessions, users, now>>

\* get_current_user: select(User).where(User.id == session.user_id).one();
\* NoResultFound: 500
SessionCurrentUser(c) ==
    /\ c \in Calls /\ calls[c].pc = "current_user"
    /\ LET q == calls[c]
       IN  IF q.row.user_id \in DOMAIN users
           THEN SetCall(c, [Answer(q, 200, "") EXCEPT !.user = q.row.user_id])
           ELSE SetCall(c, Answer(q, 500, "An unexpected error occurred."))
    /\ UNCHANGED <<sessions, users, now>>

\* logout with a session: session.logged_out_at = now; db.add(session);
\* await db.commit(); response.delete_cookie
LogoutCommit(c) ==
    /\ c \in Calls /\ calls[c].pc = "logout"
    /\ sessions' = [sessions EXCEPT ![calls[c].session].logged_out_at = now]
    /\ SetCall(c, [Answer(calls[c], 307, "") EXCEPT !.cookie_cleared = TRUE])
    /\ UNCHANGED <<users, now>>

sessionsRest == <<items, nextItemId, attachments, nextAttId, store, reqs,
                  itemRows, tags, links>>

NextSessions ==
    \/ login /\ UNCHANGED sessionsRest
    \/ \E s \in 0..MaxSessions :
            SessionStart("auth", NoCookie, s, "a@x") /\ UNCHANGED sessionsRest
    \/ \E k \in NULL..MaxSessions :
            SessionStart("logout", k, Unknown, "") /\ UNCHANGED sessionsRest
    \/ \E k \in NULL..MaxSessions :
            SessionStart("page", k, Unknown, "") /\ UNCHANGED sessionsRest
    \/ SessionTick /\ UNCHANGED <<attachments, nextAttId, store, reqs, tags, links>>
    \/ \E c \in Calls : GetSessionFromState(c) /\ UNCHANGED sessionsRest
    \/ \E c \in Calls : DecodeToken(c) /\ UNCHANGED sessionsRest
    \/ \E c \in Calls : AuthGetUser(c) /\ UNCHANGED sessionsRest
    \/ \E c \in Calls : AuthCreateUser(c) /\ UNCHANGED sessionsRest
    \/ \E c \in Calls : AuthBind(c) /\ UNCHANGED sessionsRest
    \/ \E c \in Calls : GetSession(c) /\ UNCHANGED sessionsRest
    \/ \E c \in Calls : SessionCurrentUser(c) /\ UNCHANGED sessionsRest
    \/ \E c \in Calls : LogoutCommit(c) /\ UNCHANGED sessionsRest

SpecSessions == Init /\ [][NextSessions]_vars

\* the cookie names a stored Session row that is not expired and not logged
\* out
Acceptable(cookie) ==
    /\ cookie # NoCookie
    /\ cookie \in DOMAIN sessions
    /\ sessions[cookie].expires_at >= now
    /\ sessions[cookie].logged_out_at = NULL

NamesLoggedOut(q) ==
    LET t == IF q.op = "auth" THEN q.state ELSE q.cookie
    IN  t \in DOMAIN sessions /\ sessions[t].logged_out_at # NULL

C27_OneUserPerEmail ==
    /\ \A e \in Emails : Cardinality(UsersWithEmail(e)) <= 1
    /\ \A r \in Requests :
            ~(reqs[r].pc = "done" /\ reqs[r].status = 500 /\ reqs[r].email # ""
                /\ reqs[r].user = 0)

(***************************************************************************)
(* The attachment handlers of one item together with delete_item of that   *)
(* item.                                                                   *)
(***************************************************************************)
InitOneItem ==
    /\ items = {1}
    /\ itemRows = [x \in {1} |-> CreatedItem]
    /\ nextItemId = 2
    /\ attachments = NoRows
    /\ nextAttId = 1
    /\ store = NoBlobs
    /\ reqs = <<>>
    /\ tags = {}
    /\ links = <<>>
    /\ users = <<>>
    /\ sessions = [x \in {} |-> {}]
    /\ now = 0
    /\ calls = <<>>

NextDeleteItem ==
    \/ \E n \in Filenames, t \in ContentTypes :
            StartCreate(1, FullFile, n, t) /\ UNCHANGED restVars
    \/ StartDelete(1, 1) /\ UNCHANGED restVars
    \/ \E r \in Requests : CreateGetItem(r) /\ UNCHANGED restVars
    \/ \E r \in Requests : CreateInsert(r) /\ UNCHANGED restVars
    \/ \E r \in Requests : CreateRefresh(r) /\ UNCHANGED restVars
    \/ \E r \in Requests : CreateHash(r) /\ UNCHANGED restVars
    \/ \E r \in Requests : CreatePut(r) /\ UNCHANGED restVars
    \/ \E r \in Requests : CreateCommit(r) /\ UNCHANGED restVars
    \/ \E r \in Requests : CreateReturn(r) /\ UNCHANGED restVars
    \/ \E r \in Requests : DeleteGetItem(r) /\ UNCHANGED restVars
    \/ \E r \in Requests : DeleteGetAttachment(r) /\ UNCHANGED restVars
    \/ \E r \in Requests : DeleteMark(r) /\ UNCHANGED restVars
    \/ \E r \in Requests : DeleteBlob(r) /\ UNCHANGED restVars
    \/ \E r \in Requests : DeleteCommit(r) /\ UNCHANGED restVars
    \/ ItemStart("delete_item", 1, <<>>)
            /\ UNCHANGED <<attachments, nextAttId, store, reqs, tags, links, users, sessions>>
    \/ \E c \in Calls : ItemLoad(c)
            /\ UNCHANGED <<attachments, nextAttId, store, reqs, tags, links, users, sessions>>
    \/ \E c \in Calls : ItemDeleteCommit(c)
            /\ UNCHANGED <<nextAttId, store, reqs, tags, users, sessions>>

SpecDeleteItem == InitOneItem /\ [][NextDeleteItem]_vars

\* C28: once a delete_item of item I has been answered 200, the object
\* store holds no blob at a key item_I/attachments/...
C28_NoBlobsOfDeletedItem ==
    \A c \in Calls :
        (calls[c].op = "delete_item" /\ calls[c].status = 200)
        => \A k \in DOMAIN store : k[2] # calls[c].item_id

(***************************************************************************)
(* add_tag and remove_tag (src/app/api/routes/items_tags.py).  The rows of *)
(* ItemTagLink are kept as the table holds them, one entry per row; the    *)
(* item that session.get returns carries its tags as loaded then.          *)
(***************************************************************************)
TagIds == 1..2

\* item.tags: the tags of the ItemTagLink rows of an item, one per row
TagsOf(rows, item_id) ==
    LET mine == SelectSeq(rows, LAMBDA l : l[1] = item_id)
    IN  [i \in DOMAIN mine |-> mine[i][2]]

\* item.tags.count(tag)
count(list, tag) == Cardinality({i \in DOMAIN list : list[i] = tag})

\* the list without the first entry that equals tag: item.tags.remove(tag)
RemoveFirst(list, x) ==
    LET i == CHOOSE j \in DOMAIN list :
                list[j] = x /\ \A k \in 1..(j - 1) : list[k] # x
    IN  SubSeq(list, 1, i - 1) \o SubSeq(list, i + 1, Len(list))

NewTagCall(op, item_id, tag_id) ==
    [op |-> op, pc |-> "get", item_id |-> item_id, tag_id |-> tag_id,
     item_tags |-> <<>>, status |-> 0, detail |-> ""]

InitTags ==
    /\ items = {1}
    /\ itemRows = [x \in {1} |-> CreatedItem]
    /\ nextItemId = 2
    /\ attachments = NoRows
    /\ nextAttId = 1
    /\ store = NoBlobs
    /\ reqs = <<>>
    /\ tags = {1}
    /\ links = <<>>
    /\ users = <<>>
    /\ sessions = [x \in {} |-> {}]
    /\ now = 0
    /\ calls = <<>>

\* a request to add_tag or remove_tag arrives
TagStart(op, item_id, tag_id) ==
    /\ Len(calls) < MaxCalls
    /\ calls' = Append(calls, NewTagCall(op, item_id, tag_id))
    /\ UNCHANGED <<items, itemRows, tags, links>>

\* item = await session.get(Item, item_id); if not item: 404
TagGetItem(c) ==
    /\ c \in Calls /\ calls[c].pc = "get"
    /\ LET q == calls[c]
       IN  IF q.item_id \notin items
           THEN SetCall(c, Answer(q, 404, "Item not found"))
           ELSE SetCall(c, [q EXCEPT !.pc = "get_tag", !.item_tags = TagsOf(links, q.item_id)])
    /\ UNCHANGED <<items, itemRows, tags, links>>

\* tag = await session.get(Tag, tag_id); if not tag: 404; add_tag returns
\* the item if item.tags.count(tag), remove_tag if not item.tags.count(tag)
TagGetTag(c) ==
    /\ c \in Calls /\ calls[c].pc = "get_tag"
    /\ LET q == calls[c]
           has == count(q.item_tags, q.tag_id) # 0
       IN  IF q.tag_id \notin tags
           THEN SetCall(c, Answer(q, 404, "Tag not found"))
           ELSE IF (q.op = "add_tag") = has
                THEN SetCall(c, Answer(q, 200, ""))
                ELSE SetCall(c, [q EXCEPT !.pc = "commit"])
    /\ UNCHANGED <<items, itemRows, tags, links>>

\* TagCommit on a table without the primary key (item_id, tag_id)
TagCommit_NoKey(c) ==
    /\ c \in Calls /\ calls[c].pc = "commit"
    /\ LET q == calls[c]
           row == <<q.item_id, q.tag_id>>
       IN  IF q.op = "add_tag"
           THEN /\ links' = Append(links, row)
                /\ SetCall(c, [Answer(q, 200, "") EXCEPT
                                !.item_tags = TagsOf(links', q.item_id)])
           ELSE IF \E i \in DOMAIN links : links[i] = row
                THEN /\ links' = RemoveFirst(links, row)
                     /\ SetCall(c, [Answer(q, 200, "") EXCEPT
                                     !.item_tags = TagsOf(links', q.item_id)])
                ELSE /\ SetCall(c, Answer(q, 500, "Internal Server Error"))
                     /\ UNCHANGED links
    /\ UNCHANGED <<items, itemRows, tags>>

\* item.tags.append(tag) or item.tags.remove(tag); session.add(item); await
\* session.commit(); await session.refresh(item): the INSERT of an
\* ItemTagLink row is refused when a row with the key is there
\* (IntegrityError), the DELETE of one that is gone matches no row
\* (StaleDataError)
TagCommit(c) ==
    /\ c \in Calls /\ calls[c].pc = "commit"
    /\ LET q == calls[c]
           row == <<q.item_id, q.tag_id>>
           there == \E i \in DOMAIN links : links[i] = row
       IN  IF (q.op = "add_tag") = there
           THEN /\ SetCall(c, Answer(q, 500, "Internal Server Error"))
                /\ UNCHANGED links
           ELSE /\ links' = IF q.op = "add_tag" THEN Append(links, row)
                            ELSE RemoveFirst(links, row)
                /\ SetCall(c, [Answer(q, 200, "") EXCEPT
                                !.item_tags = TagsOf(links', q.item_id)])
    /\ UNCHANGED <<items, itemRows, tags>>

tagsRest == <<nextItemId, attachments, nextAttId, store, reqs, users, sessions, now>>

NextTags ==
    \/ \E i \in ItemIds, t \in TagIds : TagStart("add_tag", i, t) /\ UNCHANGED tagsRest
    \/ \E i \in ItemIds, t \in TagIds : TagStart("remove_tag", i, t) /\ UNCHANGED tagsRest
    \/ \E c \in Calls : TagGetItem(c) /\ UNCHANGED tagsRest
    \/ \E c \in Calls : TagGetTag(c) /\ UNCHANGED tagsRest
    \/ \E c \in Calls : TagCommit(c) /\ UNCHANGED tagsRest

SpecTags == InitTags /\ [][NextTags]_vars

\* C29: the ItemTagLink table never holds two rows of the same item and
\* tag, so the tag list of an item, in the table and as returned, has each
\* tag at most once; add_tag for a tag that the item it loaded has, and
\* remove_tag for one that it has not, return the item with 200 and change
\* no table; an item or a tag that does not exist is answered 404 without a
\* change.
C29_TagLinksAreASet ==
    [][/\ \A i \in DOMAIN links', j \in DOMAIN links' : links'[i] = links'[j] => i = j
       /\ \A c \in Calls :
            LET q == calls[c]
                q2 == calls'[c]
                has == \E i \in DOMAIN q.item_tags : q.item_tags[i] = q.tag_id
            IN  /\ \A t \in TagIds : count(q2.item_tags, t) <= 1
                /\ (q.pc = "get" /\ q2 # q /\ q.item_id \notin items)
                   => /\ q2.status = 404 /\ q2.detail = "Item not found"
                      /\ UNCHANGED <<items, itemRows, tags, links>>
                /\ (q.pc = "get_tag" /\ q2 # q /\ q.tag_id \notin tags)
                   => /\ q2.status = 404 /\ q2.detail = "Tag not found"
                      /\ UNCHANGED <<items, itemRows, tags, links>>
                /\ (q.pc = "get_tag" /\ q2 # q /\ q.tag_id \in tags
                        /\ ((q.op = "add_tag") = has))
                   => /\ q2.pc = "done" /\ q2.status = 200
                      /\ q2.item_tags = q.item_tags
                      /\ UNCHANGED <<items, itemRows, tags, links>>
    ]_vars

\* two add_tag calls of the same tag that both loaded the item without it:
\* one committed the row, the other was refused, and a third call, after
\* them, got the item back with the one tag
C29_Witness ==
    \E c \in Calls, d \in Calls, e \in Calls :
        /\ calls[c].op = "add_tag" /\ calls[d].op = "add_tag" /\ calls[e].op = "add_tag"
        /\ calls[c].item_id = 1 /\ calls[d].item_id = 1 /\ calls[e].item_id = 1
        /\ calls[c].tag_id = 1 /\ calls[d].tag_id = 1 /\ calls[e].tag_id = 1
        /\ calls[c].status = 200 /\ calls[d].status = 500
        /\ calls[e].status = 200 /\ calls[e].item_tags = <<1>>
        /\ c # e
        /\ links = <<<<1, 1>>>>

(***************************************************************************)
(* get_token_payload on every Authorization header: a scheme and a token   *)
(* with every combination of what the decoding looks at.                   *)
(***************************************************************************)
Schemes == {"", "Basic", "Bearer", "bearer"}

Tokens ==
    [segments : BOOLEAN, kid : {"", "k1", "k2"}, signed_by : {"k1", "k2"},
     iss : {"idp", "other"}, has_exp : BOOLEAN, has_iat : BOOLEAN,
     expired : BOOLEAN, has_sub : BOOLEAN, email : {"a@x"}]

InitToken ==
    /\ InitRest
    /\ items = {}
    /\ nextItemId = 1
    /\ attachments = NoRows
    /\ nextAttId = 1
    /\ store = NoBlobs
    /\ \E s \in Schemes, t \in Tokens :
            reqs = << [NewRequest("get", 1, 1, <<>>, <<>>, "") EXCEPT
                        !.pc = "token",
                        !.authorization = [scheme |-> s, token |-> t]] >>

NextToken ==
    \/ \E r \in Requests : GetTokenPayload(r) /\ UNCHANGED authRest

SpecToken == InitToken /\ [][NextToken]_vars

\* C30: get_token_payload ends, for every Authorization header, in the
\* payload of a valid bearer token, in 401 when the scheme is not bearer, or
\* in 403 when the token is refused; never in another answer.
C30_TokenRejectionIsTotal ==
    \A r \in Requests :
        LET q == reqs[r]
            bearer == q.authorization.scheme \in {"Bearer", "bearer"}
        IN  \/ q.pc = "token"
            \/ q.pc = "user" /\ ValidBearer(q.authorization)
            \/ q.pc = "done" /\ q.status = 401 /\ ~bearer
            \/ q.pc = "done" /\ q.status = 403 /\ bearer /\ ~ValidBearer(q.authorization)

====
